---- MODULE Spec2Model ----
(***************************************************************************)
(* A state-machine model of the loc-os kernel: the process table and the   *)
(* cooperative scheduler (proc.c), the system-call layer (trampoline.c)    *)
(* and the archive file system (fs.c) on top of the block device.          *)
(*                                                                         *)
(* Pointers to process control blocks are modelled by slot indexes of      *)
(* procs[]; the null pointer is NULL.                                      *)
(***************************************************************************)
EXTENDS Integers, Sequences, FiniteSets, TLC

\* ------------------------------------------------------------------------
\* Program constants
\* ------------------------------------------------------------------------
PROCS_MAX == 8

PROC_UNUSED == 0

PROC_RUNNABLE == 1

PROC_EXITED == 2

NULL == -1

\* ------------------------------------------------------------------------
\* Bounds of the model
\* ------------------------------------------------------------------------
\* Pages of free RAM between __free_ram and __free_ram_end (linker symbols).
FreeRamPages == 23

\* Level-0 page tables that the identity map of [__kernel_base,
\* __free_ram_end) needs (one per 4 MiB region the range touches).
KernelTables == 1

\* Largest user image, in pages, that create_process is given.
MaxImagePages == 1

VARIABLES
    procs,         \* struct process procs[PROCS_MAX]: pid, state, saved sp
    current_proc,  \* struct process *current_proc
    idle_proc,     \* struct process *idle_proc (the global of proc.c)
    next_paddr,    \* alloc_pages' cursor, in pages from __free_ram
    files,         \* struct file files[FILES_MAX]
    disk,          \* uint8_t disk[DISK_MAX_SIZE]
    blk,           \* the bytes stored on the block device
    oob,           \* some copy has gone outside the bounds of its array
    csr,           \* the CSRs scause, sepc, satp and sscratch
    virtio,        \* the request virtqueue's indexes and the request buffer
    mem,           \* the page tables in the frames alloc_pages has handed out
    console,       \* the byte the firmware's console holds for getchar, or -1
    regs,          \* the general registers of the user program
    frame,         \* a0..a3 of the trap frame of the latest ecall
    pc,            \* where the hart is: a boot step, "user", "trap", "panic", ...
    panic,         \* the message of the PANIC the kernel halted in
    last           \* the kernel operation executed last, and what it did

procvars == <<procs, current_proc, idle_proc, next_paddr>>

fsvars == <<files, disk, blk, oob>>

hwvars == <<virtio, mem, console, regs>>

vars == <<procs, current_proc, idle_proc, next_paddr, files, disk, blk, oob,
          frame, csr, virtio, mem, console, regs, pc, panic, last>>

Slots == 0 .. (PROCS_MAX - 1)

\* What the 13-word frame at a saved sp returns to when switch_context pops
\* it: the pc given to create_process ("user_entry", or "null" for the idle
\* process), or the place that called yield when the process was switched
\* out.
Frames == {"none", "null", "user_entry", "kernel_main", "sys_exit", "yield_op"}

ProcStates == {PROC_UNUSED, PROC_RUNNABLE, PROC_EXITED}

Min(S) == CHOOSE x \in S : \A y \in S : x <= y

\* ------------------------------------------------------------------------
\* proc.c
\* ------------------------------------------------------------------------

\* Variants of FirstUnused: the highest UNUSED slot; the lowest slot that
\* is not RUNNABLE.
FirstSlot(p) == 0

FirstUnusedLast(p) ==
    LET free == {i \in Slots : p[i].state = PROC_UNUSED}
    IN  IF free = {} THEN NULL ELSE CHOOSE x \in free : \A y \in free : x >= y

FirstUnusedOrExited(p) ==
    LET free == {i \in Slots : p[i].state # PROC_RUNNABLE}
    IN  IF free = {} THEN NULL ELSE Min(free)

\* The slot create_process' loop stops at: the lowest index whose state is
\* PROC_UNUSED, or NULL when the loop ends with proc == NULL.
FirstUnused(p) ==
    LET free == {i \in Slots : p[i].state = PROC_UNUSED}
    IN  IF free = {} THEN NULL ELSE Min(free)

\* A slot of the zeroed process table.
UnusedSlot ==
    [pid |-> 0, state |-> PROC_UNUSED, sp |-> "none",
     page_table |-> [root |-> NULL, maps |-> <<>>]]

\* The memory layout, in page numbers. The device's register page is
\* VIRTIO_BLK_PADDR / PAGE_SIZE; the linker's symbols put the kernel image
\* at __kernel_base in RAM, above the device window, followed by the free
\* RAM up to __free_ram_end.
VirtioPage == 65537

KernelBasePage == 524800

KernelImagePages == 2

FreeRamPage == KernelBasePage + KernelImagePages

FreeRamEndPage == FreeRamPage + FreeRamPages

UserBasePage == 4096

\* The mappings create_process installs with map_page in the table rooted
\* at frame `root`: the identity map of [__kernel_base, __free_ram_end)
\* with R, W, X, and the image pages at USER_BASE with U, R, W, X. The
\* frames come from alloc_pages in the order of the calls: the root, the
\* level-0 tables of the kernel map, then for each image page the page
\* itself, followed for the first one by the level-0 table of the user
\* region. A mapping is a run of pages: `pages` pages from virtual page
\* vpn to physical page ppn.
KernelMap ==
    [vpn |-> KernelBasePage, ppn |-> KernelBasePage,
     pages |-> FreeRamEndPage - KernelBasePage, flags |-> {"V", "R", "W", "X"}]

\* A variant that places the first image page one frame earlier, on the
\* last level-0 table of the kernel map.
ImageFrameOnTable(root, k) == root + KernelTables + (IF k = 0 THEN 0 ELSE k + 1)

ImageFrame(root, k) == root + 1 + KernelTables + (IF k = 0 THEN 0 ELSE k + 1)

ProcessMaps(root, image_pages) ==
    <<KernelMap>> \o
    [k \in 1 .. image_pages |->
        [vpn |-> UserBasePage + (k - 1), ppn |-> FreeRamPage + ImageFrame(root, k - 1),
         pages |-> 1, flags |-> {"V", "U", "R", "W", "X"}]]

\* The translation of virtual page vpn by a table with mappings `maps`:
\* the physical page and the flags of the leaf; no flag (V is missing) when
\* the walk finds no valid entry.
Translate(maps, vpn) ==
    LET hit == {k \in 1 .. Len(maps) :
                   maps[k].vpn <= vpn /\ vpn < maps[k].vpn + maps[k].pages}
    IN  IF hit = {} THEN [ppn |-> 0, flags |-> {}]
        ELSE LET m == maps[CHOOSE k \in hit : \A j \in hit : k >= j]
             IN  [ppn |-> m.ppn + (vpn - m.vpn), flags |-> m.flags]

\* Whether a load or store of the kernel to the device's register page
\* goes through with `satp` in the satp register: paging is off until the
\* first yield writes satp (NULL); after that the page is reached only
\* through a leaf of the current table that maps it to itself with R and W.
MmioAccessible(p, satp) ==
    \/ satp = NULL
    \/ \E i \in Slots :
          /\ p[i].page_table.root = satp
          /\ LET t == Translate(p[i].page_table.maps, VirtioPage)
             IN  /\ t.ppn = VirtioPage
                 /\ {"V", "R", "W"} \subseteq t.flags

\* Frames one create_process takes from alloc_pages: the root table, the
\* level-0 tables of the kernel identity map (map_page allocates one per
\* absent level-1 entry), one frame per image page and the level-0 table of
\* the user region when the image is not empty.
FramesNeeded(image_pages) ==
    1 + KernelTables + image_pages + (IF image_pages > 0 THEN 1 ELSE 0)

\* create_process(image, image_size, base_addr, pc) on table p with the
\* allocator's cursor at `cursor`. PANIC("no free process slots") comes
\* before anything is written or allocated. alloc_pages advances its cursor
\* before it checks it, so an out-of-memory PANIC leaves the cursor one page
\* past __free_ram_end; the slot's pid and state are written last.
create_process(p, cursor, image_pages, entry) ==
    LET i == FirstUnused(p)
    IN  IF i = NULL
        THEN [panic |-> "no free process slots", proc |-> NULL,
              procs |-> p, next_paddr |-> cursor]
        ELSE IF cursor + FramesNeeded(image_pages) > FreeRamPages
        THEN [panic |-> "out of memory", proc |-> NULL,
              procs |-> p, next_paddr |-> FreeRamPages + 1]
        ELSE [panic |-> "none", proc |-> i,
              procs |-> [p EXCEPT ![i] = [pid |-> i + 1, state |-> PROC_RUNNABLE,
                                          sp |-> entry,
                                          page_table |->
                                              [root |-> cursor,
                                               maps |-> ProcessMaps(cursor, image_pages)]]],
              next_paddr |-> cursor + FramesNeeded(image_pages)]

\* sizeof(next->stack), and &proc->stack[sizeof(proc->stack)] for the
\* process in slot i: a supervisor stack address is a slot and an offset in
\* the slot's stack array. NoStack is an sscratch that holds no such address.
KernelStackSize == 8192

NoStack == [slot |-> NULL, off |-> 0]

StackTop(i) == [slot |-> i, off |-> KernelStackSize]

\* The slots yield's loop visits, in order: (current_proc->pid + i) %
\* PROCS_MAX for i = 0 .. PROCS_MAX - 1.
ScanSlotPlusOne(p, cur, i) == (p[cur].pid + 1 + i) % PROCS_MAX

ScanSlot(p, cur, i) == (p[cur].pid + i) % PROCS_MAX

\* Variants of YieldNext: a scan that takes a slot in any state but UNUSED;
\* a scan that starts at the current process' own slot.
YieldNextAnyState(p, cur, idle) ==
    LET hits == {i \in 0 .. (PROCS_MAX - 1) :
                    /\ p[ScanSlot(p, cur, i)].state # PROC_UNUSED
                    /\ p[ScanSlot(p, cur, i)].pid > 0}
    IN  IF hits = {} THEN idle ELSE ScanSlot(p, cur, Min(hits))

YieldNextFromSlot(p, cur, idle) ==
    LET hits == {i \in 0 .. (PROCS_MAX - 1) :
                    /\ p[(cur + i) % PROCS_MAX].state = PROC_RUNNABLE
                    /\ p[(cur + i) % PROCS_MAX].pid > 0}
    IN  IF hits = {} THEN idle ELSE (cur + Min(hits)) % PROCS_MAX

\* The process yield selects: the first visited slot that is RUNNABLE with
\* pid > 0, and the global idle_proc when the loop finds none.
YieldNext(p, cur, idle) ==
    LET hits == {i \in 0 .. (PROCS_MAX - 1) :
                    /\ p[ScanSlot(p, cur, i)].state = PROC_RUNNABLE
                    /\ p[ScanSlot(p, cur, i)].pid > 0}
    IN  IF hits = {} THEN idle ELSE ScanSlot(p, cur, Min(hits))

\* Where the hart continues when the code that called yield gets control
\* back, either because yield returned at once or because the process was
\* switched out there and is switched in again: kernel_main executes
\* PANIC("switched to idle process"), the SYS_EXIT handler executes
\* PANIC("unreachable"), a fresh process enters user mode through
\* user_entry, and the idle process' frame returns to address 0.
Resume(ctx) ==
    CASE ctx = "kernel_main" -> [pc |-> "panic", panic |-> "switched to idle process"]
      [] ctx = "sys_exit"    -> [pc |-> "panic", panic |-> "unreachable"]
      [] ctx = "null"        -> [pc |-> "crash", panic |-> "none"]
      [] OTHER                 -> [pc |-> "user", panic |-> "none"]

\* yield() called from `caller` on table p with current process cur: the
\* set of outcomes. next == current_proc returns at once. Otherwise yield
\* reads next->page_table and next->stack, stores the caller's frame in
\* prev->sp and switches. With next == NULL those reads go through a null
\* pointer: under the process' page table address 0 is unmapped, so the
\* load faults into handle_trap, which PANICs on any scause but ECALL; were
\* the loads to succeed, current_proc becomes NULL and switch_context pops
\* a frame from whatever lies at address 0.
yield_always_switches(p, cur, idle, caller) ==
    LET next == YieldNext(p, cur, idle)
    IN  IF next = NULL
        THEN {[procs |-> p, current_proc |-> cur, next |-> next,
               pc |-> "panic", panic |-> "unexpected trap"]}
        ELSE {[procs |-> [p EXCEPT ![cur].sp = caller], current_proc |-> next,
               next |-> next,
               pc |-> Resume(p[next].sp).pc, panic |-> Resume(p[next].sp).panic]}

yield(p, cur, idle, caller) ==
    LET next == YieldNext(p, cur, idle)
    IN  IF next = cur
        THEN {[procs |-> p, current_proc |-> cur, next |-> next,
               pc |-> Resume(caller).pc, panic |-> Resume(caller).panic]}
        ELSE IF next = NULL
        THEN {[procs |-> p, current_proc |-> cur, next |-> next,
               pc |-> "panic", panic |-> "unexpected trap"],
              [procs |-> [p EXCEPT ![cur].sp = caller], current_proc |-> NULL,
               next |-> next, pc |-> "crash", panic |-> "none"]}
        ELSE {[procs |-> [p EXCEPT ![cur].sp = caller], current_proc |-> next,
               next |-> next,
               pc |-> Resume(p[next].sp).pc, panic |-> Resume(p[next].sp).panic]}

\* ------------------------------------------------------------------------
\* Byte arrays. A C array is the sequence of its bytes up to some point
\* after which all are zero (the .bss is zeroed, a tar archive ends in zero
\* blocks); the state variables hold arrays without any trailing zero
\* (Trim). At reads a byte at a 0-based offset, Store writes bytes at an
\* offset. The length of a sequence built by Store is the extent of the
\* writes, by which the callers detect a write past the end of the array.
\* ------------------------------------------------------------------------
ZeroBytes == [i \in 1 .. 16384 |-> 0]

Zeros(n) == IF n <= 0 THEN <<>> ELSE SubSeq(ZeroBytes, 1, n)

Max2(a, b) == IF a >= b THEN a ELSE b

Min2(a, b) == IF a <= b THEN a ELSE b

At(a, i) == IF i < Len(a) THEN a[i + 1] ELSE 0

\* The n bytes of array a from offset `from`.
Bytes(a, from, n) ==
    LET have == Max2(0, Min2(Len(a) - from, n))
    IN  SubSeq(a, from + 1, from + have) \o Zeros(n - have)

\* Array a with the bytes s written at offset off.
Store(a, off, s) == Bytes(a, 0, off) \o s \o SubSeq(a, off + Len(s) + 1, Len(a))

\* Array a cut to its first n bytes.
Clip(a, n) == SubSeq(a, 1, Min2(n, Len(a)))

\* The index of the last non-zero element of s[lo..hi], or 0.
RECURSIVE LastNonZero(_, _, _)
LastNonZero(s, lo, hi) ==
    IF lo > hi \/ SubSeq(s, lo, hi) = Zeros(hi - lo + 1) THEN 0
    ELSE IF lo = hi THEN lo
    ELSE LET mid == (lo + hi) \div 2
         IN  IF SubSeq(s, mid + 1, hi) = Zeros(hi - mid)
             THEN LastNonZero(s, lo, mid)
             ELSE LastNonZero(s, mid + 1, hi)

\* Array s without its trailing zeros.
Trim(s) == SubSeq(s, 1, LastNonZero(s, 1, Len(s)))

RECURSIVE SumBytes(_, _, _)
SumBytes(s, lo, hi) ==
    IF lo > hi THEN 0
    ELSE IF lo = hi THEN s[lo]
    ELSE LET mid == (lo + hi) \div 2
         IN  SumBytes(s, lo, mid) + SumBytes(s, mid + 1, hi)

\* The C string that starts at offset off of array a: the bytes up to the
\* first NUL.
RECURSIVE CStr(_, _)
CStr(a, off) == IF At(a, off) = 0 THEN <<>> ELSE <<At(a, off)>> \o CStr(a, off + 1)

\* align_up(value, align) for a power of two align.
align_up(value, align) == ((value + align - 1) \div align) * align

\* ------------------------------------------------------------------------
\* lib.c
\* ------------------------------------------------------------------------

\* num * 8 + d in int32 arithmetic (two's complement wrap-around).
MulAddWrap(num, d) ==
    LET h == num % 536870912
    IN  IF h < 268435456 THEN h * 8 + d ELSE (h - 536870912) * 8 + d

\* atoi's octal loop: consume the digits '0'..'7' of s from index i.
RECURSIVE OctalDigits(_, _, _)
OctalDigits(s, i, num) ==
    IF i <= Len(s) /\ s[i] >= 48 /\ s[i] <= 55
    THEN OctalDigits(s, i + 1, MulAddWrap(num, s[i] - 48))
    ELSE num

RECURSIVE DecimalDigits(_, _, _)
DecimalDigits(s, i, num) ==
    IF i <= Len(s) /\ s[i] >= 48 /\ s[i] <= 57 /\ num < 100000000
    THEN DecimalDigits(s, i + 1, num * 10 + (s[i] - 48))
    ELSE num

\* The index of the first element of s at or after i that is neither ' '
\* nor '0'.
RECURSIVE SkipBlankZero(_, _)
SkipBlankZero(s, i) ==
    IF i <= Len(s) /\ (s[i] = 32 \/ s[i] = 48) THEN SkipBlankZero(s, i + 1) ELSE i

\* atoi(str) for a string without a sign: skip leading blanks and zeros,
\* then 'o' starts an octal number; anything else is read as decimal (the
\* binary and hexadecimal prefixes are not used by the kernel).
atoi(s) ==
    LET i == SkipBlankZero(s, 1)
    IN  IF i <= Len(s) /\ s[i] = 111
        THEN OctalDigits(s, i + 1, 0)
        ELSE DecimalDigits(s, i, 0)

\* ------------------------------------------------------------------------
\* fs.h, fs.c
\* ------------------------------------------------------------------------
FILES_MAX == 2

SECTOR_SIZE == 512

\* sizeof(file->name), sizeof(file->data), sizeof(struct tar_header)
NameSize == 100

DataSize == 1024

HeaderSize == 512

\* struct file: in_use, name[100], data[1024], padding up to the 4-byte
\* aligned size_t size.
SizeofFile == align_up(1 + NameSize + DataSize, 4) + 4

DISK_MAX_SIZE == align_up(SizeofFile * FILES_MAX, SECTOR_SIZE)

DiskSectors == DISK_MAX_SIZE \div SECTOR_SIZE

\* Offsets and sizes of the fields of struct tar_header.
TarField ==
    [name |-> [off |-> 0, len |-> 100], mode |-> [off |-> 100, len |-> 8],
     size |-> [off |-> 124, len |-> 12], mtime |-> [off |-> 136, len |-> 12],
     checksum |-> [off |-> 148, len |-> 8], type |-> [off |-> 156, len |-> 1],
     magic |-> [off |-> 257, len |-> 6], version |-> [off |-> 263, len |-> 2]]

FileSlots == 0 .. (FILES_MAX - 1)

\* strcmp(a, b) == 0 for the C strings a and b.
StrEq(a, b) == a = b

\* fs_lookup(filename): the first slot of files[] whose name equals
\* filename (in_use is not looked at), or NULL.
fs_lookup(fl, filename) ==
    LET hits == {i \in FileSlots : StrEq(CStr(fl[i].name, 0), filename)}
    IN  IF hits = {} THEN NULL ELSE Min(hits)

\* n as `digits` octal digits, most significant first (n >= 0).
RECURSIVE Octal(_, _)
Octal(n, digits) ==
    IF digits = 0 THEN <<>> ELSE Octal(n \div 8, digits - 1) \o <<(n % 8) + 48>>

\* The header flush_fs builds for a file, before its checksum is stored:
\* memset 0, strcpy of the name, mode "000644", magic "ustar", version
\* "00", type '0', and the size as 12 octal digits.
HeaderNoChecksum(f) ==
    LET h0 == Store(<<>>, TarField.name.off, CStr(f.name, 0))
        h1 == Store(h0, TarField.mode.off, <<48, 48, 48, 54, 52, 52>>)
        h2 == Store(h1, TarField.magic.off, <<117, 115, 116, 97, 114>>)
        h3 == Store(h2, TarField.version.off, <<48, 48>>)
        h4 == Store(h3, TarField.type.off, <<48>>)
    IN  Store(h4, TarField.size.off, Octal(f.size, TarField.size.len))

\* The checksum flush_fs computes: ' ' * sizeof(checksum) plus the unsigned
\* sum of the 512 header bytes (the checksum field still zero); stored as
\* six octal digits, NUL, ' '.
ChecksumZeroField(h) == SumBytes(h, 1, Len(h))

Checksum(h) == 32 * TarField.checksum.len + SumBytes(h, 1, Len(h))

Header(f) ==
    LET h == HeaderNoChecksum(f)
    IN  Store(h, TarField.checksum.off, Octal(Checksum(h), 6) \o <<0, 32>>)

\* flush_fs' loop over files[i..]: d is disk[] so far and off the offset of
\* the next header. The result is longer than disk[] when the loop wrote
\* past its end.
RECURSIVE FlushFrom(_, _, _, _)
FlushFrom(fl, i, d, off) ==
    IF i >= FILES_MAX THEN d
    ELSE IF ~fl[i].in_use THEN FlushFrom(fl, i + 1, d, off)
    ELSE LET d1 == Store(d, off, Bytes(Header(fl[i]), 0, HeaderSize))
             d2 == Store(d1, off + HeaderSize, Bytes(fl[i].data, 0, fl[i].size))
         IN  FlushFrom(fl, i + 1, d2,
                       off + align_up(HeaderSize + fl[i].size, SECTOR_SIZE))

\* The serialized archive: what flush_fs writes from &disk[0] on after its
\* memset, which may be longer than disk[].
Serialize(fl) == FlushFrom(fl, 0, <<>>, 0)

\* read_write_disk(buf, sector, is_write) with the device answering at
\* once: nothing happens for a sector at or beyond the capacity.
SectorInRange(cap, sector) == sector < cap \div SECTOR_SIZE

\* The device after flush_fs wrote every sector of disk[] d to it.
RECURSIVE WriteSectors(_, _, _, _)
WriteSectors(dev, cap, d, sector) ==
    IF sector >= DiskSectors THEN dev
    ELSE WriteSectors(
            IF SectorInRange(cap, sector)
            THEN Store(dev, sector * SECTOR_SIZE, Bytes(d, sector * SECTOR_SIZE, SECTOR_SIZE))
            ELSE dev,
            cap, d, sector + 1)

\* disk[] after init_fs read every sector of the device into it.
RECURSIVE ReadSectors(_, _, _, _)
ReadSectors(dev, cap, d, sector) ==
    IF sector >= DiskSectors THEN d
    ELSE ReadSectors(dev, cap,
            IF SectorInRange(cap, sector)
            THEN Store(d, sector * SECTOR_SIZE, Bytes(dev, sector * SECTOR_SIZE, SECTOR_SIZE))
            ELSE d,
            sector + 1)

\* The block requests one pass over the sectors of disk[] submits.
SectorRequests(cap) == Cardinality({s \in 0 .. (DiskSectors - 1) : SectorInRange(cap, s)})

\* flush_fs(): disk[] is rebuilt from files[] and written to the device.
\* oob: the archive did not fit and flush_fs wrote past the end of disk[].
flush_fs(fl, dev, cap) ==
    LET image == Serialize(fl)
    IN  [disk |-> Trim(Clip(image, DISK_MAX_SIZE)), oob |-> Len(image) > DISK_MAX_SIZE,
         blk |-> Trim(WriteSectors(dev, cap, image, 0)), nreq |-> SectorRequests(cap)]

\* init_fs' loop from slot i with the next header at offset off of disk[]
\* d. size is parsed by atoi("0o" ++ header->size). bad: a header or data
\* was read from past the end of disk[], or data was copied past the end of
\* file->data.
RECURSIVE ParseFrom(_, _, _, _, _)
ParseFrom(fl, i, d, off, bad) ==
    IF i >= FILES_MAX THEN [files |-> fl, oob |-> bad]
    ELSE IF At(d, off + TarField.name.off) = 0
    THEN [files |-> fl, oob |-> (bad \/ off >= DISK_MAX_SIZE)]
    ELSE IF CStr(d, off + TarField.magic.off) # <<117, 115, 116, 97, 114>>
    THEN [files |-> fl, oob |-> bad]
    ELSE LET filesz == atoi(<<48, 111>> \o CStr(d, off + TarField.size.off))
             f == [in_use |-> TRUE,
                   name |-> Trim(Clip(Store(fl[i].name, 0,
                                            CStr(d, off + TarField.name.off) \o <<0>>),
                                      NameSize)),
                   data |-> Trim(Clip(Store(fl[i].data, 0, Bytes(d, off + HeaderSize, filesz)),
                                      DataSize)),
                   size |-> filesz]
         IN  ParseFrom([fl EXCEPT ![i] = f], i + 1, d,
                       off + align_up(HeaderSize + filesz, SECTOR_SIZE),
                       \/ bad
                       \/ off + HeaderSize + filesz > DISK_MAX_SIZE
                       \/ filesz > DataSize
                       \/ filesz < 0)

\* init_fs(): read the device into disk[] d0, then parse the archive.
init_fs(fl, d0, dev, cap) ==
    LET d == ReadSectors(dev, cap, d0, 0)
        r == ParseFrom(fl, 0, d, 0, FALSE)
    IN  [disk |-> Trim(d), files |-> r.files, oob |-> r.oob, nreq |-> SectorRequests(cap)]

\* ------------------------------------------------------------------------
\* The environment: the block device and the user program
\* ------------------------------------------------------------------------

\* Sectors of the block device (its capacity register).
BlkSectors == 6

blk_capacity == BlkSectors * SECTOR_SIZE

\* One member of an archive as tar(1) writes it: the header with the size
\* as 11 octal digits and a NUL, then the data padded to whole sectors.
TarMember(name, size, data) ==
    LET h0 == Store(<<>>, TarField.name.off, name)
        h1 == Store(h0, TarField.mode.off, <<48, 48, 48, 48, 54, 52, 52>>)
        h2 == Store(h1, TarField.size.off, Octal(size, 11))
        h3 == Store(h2, TarField.mtime.off, Octal(0, 11))
        h4 == Store(h3, TarField.type.off, <<48>>)
        h5 == Store(h4, TarField.magic.off, <<117, 115, 116, 97, 114>>)
        h6 == Store(h5, TarField.version.off, <<48, 48>>)
    IN  Bytes(h6, 0, HeaderSize) \o Bytes(data, 0, align_up(size, SECTOR_SIZE))

\* File contents used for the archives and the user's buffers: n bytes, all
\* non-zero, that differ with the seed.
Pattern(seed, n) == [i \in 1 .. n |-> ((i * seed) % 251) + 1]

NameA == <<97>>

NameB == <<98>>

NameZ == <<122>>

\* The archives the device may hold at boot: none; one small file; two
\* files; one file whose header claims one byte more than file->data holds.
Archives ==
    {<<>>,
     TarMember(NameA, 16, Pattern(3, 16)),
     TarMember(NameA, 16, Pattern(3, 16)) \o TarMember(NameB, 600, Pattern(5, 600)),
     TarMember(NameA, DataSize + 1, Pattern(7, DataSize + 1))}

\* The device holding an archive: zero after its end.
Images == {Trim(Clip(a, blk_capacity)) : a \in Archives}

\* User memory: the strings a0 may point to (a file that the archives hold,
\* the empty string, a name no archive holds) and the buffers a1 may point
\* to, each followed by zero bytes.
UserStrings == <<NameA, <<>>, NameZ, NameB>>

UserBufs == <<Pattern(11, 18), Pattern(13, DataSize + 1)>>

\* Values of the len argument (a2), a signed 32-bit integer.
Lens == {-1, 0, 18, DataSize, DataSize + 1, 2147483647}

\* A 32-bit register as its two 16-bit halves.
Word(hi, lo) == [hi |-> hi, lo |-> lo]

\* w + k in 32-bit unsigned arithmetic, 0 <= k < 65536.
AddWord(w, k) ==
    Word((w.hi + ((w.lo + k) \div 65536)) % 65536, (w.lo + k) % 65536)

SCAUSE_ECALL == 8

USER_BASE == Word(256, 0)

\* Addresses of instructions in the first page of the user image: the
\* ecall instruction of the user library's syscall(), through which every
\* system call goes, and instructions that raise other exceptions.
EcallSites == {AddWord(USER_BASE, 64)}

FaultSites == {USER_BASE, AddWord(USER_BASE, 4092)}

\* Exception codes other than ecall from user mode: illegal instruction,
\* instruction, load and store page faults.
OtherCauses == {2, 12, 13, 15}

\* handle_trap on an ecall: user_pc += 4.
NextPcSame(user_pc) == user_pc

NextPc(user_pc) == AddWord(user_pc, 4)

SYS_PUTCHAR == 1

SYS_GETCHAR == 2

SYS_EXIT == 3

SYS_READFILE == 4

SYS_WRITEFILE == 5

SYS_SHUTDOWN == 8

\* A syscall number the kernel does not know.
SYS_OTHER == SYS_SHUTDOWN + 1

NoArgs(a3) == [a0 |-> 0, a1 |-> 0, a2 |-> 0, a3 |-> a3]

\* The ecalls of a program that does no file syscall.
PlainEcalls == {NoArgs(n) : n \in {SYS_PUTCHAR, SYS_GETCHAR, SYS_EXIT, SYS_SHUTDOWN, SYS_OTHER}}

\* The file syscalls of the program: it reads into its first buffer and
\* writes from any.
FileEcalls ==
    {[a0 |-> s, a1 |-> 1, a2 |-> len, a3 |-> SYS_READFILE] :
        s \in 1 .. Len(UserStrings), len \in Lens}
    \cup
    {[a0 |-> s, a1 |-> b, a2 |-> len, a3 |-> SYS_WRITEFILE] :
        s \in 1 .. Len(UserStrings), b \in 1 .. Len(UserBufs), len \in Lens}

\* virtq_init: the virtqueue is a page from alloc_pages, which zeroes it;
\* no request is in the request buffer.
virtq_init == [avail_index |-> 0, used_index |-> 0, last_seen_used_index |-> 0,
               blk_req |-> [sector |-> NULL, is_write |-> FALSE]]

\* ------------------------------------------------------------------------
\* The pages init_virtio_blk takes from alloc_pages before any process is
\* created: the virtqueue (virtq_init) and the request record.
\* ------------------------------------------------------------------------
PAGE_SIZE == 4096

VIRTQ_ENTRY_NUM == 16

\* offsetof(struct virtio_blk_req, data) and (.., status): the packed
\* record is type (4), reserved (4), sector (8), data (512), status (1).
DataOffset == 4 + 4 + 8

StatusOffset == DataOffset + SECTOR_SIZE

\* sizeof(struct virtio_virtq): descs and avail fill less than a page, used
\* is aligned to PAGE_SIZE and holds flags, index and 16 elements of 8
\* bytes; queue_index, used_index and last_seen_used_index follow.
SizeofVirtq == PAGE_SIZE + (2 + 2 + VIRTQ_ENTRY_NUM * 8) + 4 + 4 + 2

VirtqPages == align_up(SizeofVirtq, PAGE_SIZE) \div PAGE_SIZE

\* align_up(sizeof(*blk_req), PAGE_SIZE) / PAGE_SIZE
BlkReqPages == align_up(StatusOffset + 1, PAGE_SIZE) \div PAGE_SIZE

\* The cursor of alloc_pages, in pages after __free_ram, when
\* init_virtio_blk has returned.
DriverPages == VirtqPages + BlkReqPages

\* ------------------------------------------------------------------------
\* Initial state: kernel_main after init_bss, init_trap_handler and
\* init_virtio_blk. The .bss is zero: every process slot UNUSED with pid 0,
\* both process pointers null, files[] and disk[] zero.
\* ------------------------------------------------------------------------
InitKernel ==
    /\ procs = [i \in Slots |-> UnusedSlot]
    /\ current_proc = NULL
    /\ idle_proc = NULL
    /\ next_paddr = DriverPages
    /\ files = [i \in FileSlots |-> [in_use |-> FALSE, name |-> <<>>, data |-> <<>>, size |-> 0]]
    /\ disk = <<>>
    /\ oob = FALSE
    /\ frame = NoArgs(0)
    /\ csr = [scause |-> 0, sepc |-> Word(0, 0), satp |-> NULL,
              sscratch |-> NoStack, stvec |-> "trampoline"]
    /\ virtio = virtq_init
    /\ mem = <<>>
    /\ console = -1
    /\ regs = <<>>
    /\ pc = "init_idle_process"
    /\ panic = "none"
    /\ last = [op |-> "none"]

Init == InitKernel /\ blk \in Images

InitProcs == InitKernel /\ blk = <<>>

\* ------------------------------------------------------------------------
\* Boot steps (kernel.c: init_boot, kernel_main)
\* ------------------------------------------------------------------------

\* init_idle_process: create_process(NULL, 0, 0, NULL), pid = 0,
\* current_proc = the new block. The pointer is kept in a local variable
\* named idle_proc that shadows the global, which stays as it was.
InitIdleProcess ==
    /\ pc = "init_idle_process"
    /\ LET r == create_process(procs, next_paddr, 0, "null")
       IN  /\ next_paddr' = r.next_paddr
           /\ IF r.panic # "none"
              THEN /\ procs' = r.procs
                   /\ pc' = "panic"
                   /\ panic' = r.panic
                   /\ UNCHANGED current_proc
              ELSE /\ procs' = [r.procs EXCEPT ![r.proc].pid = 0]
                   /\ current_proc' = r.proc
                   /\ pc' = "init_user"
                   /\ UNCHANGED panic
    /\ last' = [op |-> "init_idle_process", image_pages |-> 0,
                 proc |-> create_process(procs, next_paddr, 0, "null").proc]
    /\ UNCHANGED <<idle_proc, fsvars, frame, csr, hwvars>>

\* The common part of a create_process call whose result is not used.
DoCreate(image_pages, then_pc, op) ==
    LET r == create_process(procs, next_paddr, image_pages, "user_entry")
    IN  /\ procs' = r.procs
        /\ next_paddr' = r.next_paddr
        /\ pc' = IF r.panic # "none" THEN "panic" ELSE then_pc
        /\ panic' = r.panic
        /\ last' = [op |-> op, image_pages |-> image_pages, proc |-> r.proc]
        /\ UNCHANGED <<current_proc, idle_proc, fsvars, frame, csr, hwvars>>

\* init_user: create_process(embedded image, its size, USER_BASE, user_entry).
InitUser ==
    /\ pc = "init_user"
    /\ \E n \in 1 .. MaxImagePages : DoCreate(n, "init_fs", "init_user")

\* init_fs.
InitFs ==
    /\ pc = "init_fs"
    /\ \E r \in {init_fs(files, disk, blk, blk_capacity)} :
           /\ files' = r.files
           /\ disk' = r.disk
           /\ oob' = (oob \/ r.oob)
           /\ last' = [op |-> "init_fs", nreq |-> r.nreq]
    /\ pc' = "yield"
    /\ UNCHANGED <<procvars, blk, frame, csr, hwvars, panic>>

YieldOps == {"kernel_main_yield", "yield", "exit"}

\* The effect of a yield() call from `caller` on the process table p.
\* `again` tells that the operation before this one was a yield too.
DoYield(p, caller, op) ==
    \E o \in yield(p, current_proc, idle_proc, caller) :
        /\ procs' = o.procs
        /\ current_proc' = o.current_proc
        /\ pc' = o.pc
        /\ panic' = o.panic
        /\ csr' = IF o.next \in {NULL, current_proc}
                  THEN csr
                  ELSE [csr EXCEPT !.satp = p[o.next].page_table.root,
                                   !.sscratch = StackTop(o.next),
                                   !.sepc = IF p[o.next].sp = "user_entry"
                                            THEN USER_BASE ELSE @]
        /\ last' = [op |-> op, proc |-> current_proc, next |-> o.next,
                    again |-> last.op \in YieldOps]
        /\ UNCHANGED <<idle_proc, next_paddr, hwvars>>

\* kernel_main: yield(); PANIC("switched to idle process").
KernelMainYield ==
    /\ pc = "yield"
    /\ DoYield(procs, "kernel_main", "kernel_main_yield")
    /\ UNCHANGED <<fsvars, frame>>

\* ------------------------------------------------------------------------
\* Operations of proc.c called outside the boot sequence
\* ------------------------------------------------------------------------

\* A create_process call beyond init_user's: at boot before the first
\* yield, or later from kernel code running for the current process.
CreateProcessOp ==
    /\ pc \in {"yield", "user"}
    /\ \E n \in 0 .. MaxImagePages : DoCreate(n, pc, "create_process")

\* yield() called by kernel code running for the current process. The
\* kernel as built has no such call (the one in getchar's loop is commented
\* out); it is here so that yields and exits interleave in any order. When
\* the call returns, the process goes on in user mode.
YieldOp ==
    /\ pc = "user"
    /\ DoYield(procs, "yield_op", "yield")
    /\ UNCHANGED <<fsvars, frame>>

\* ------------------------------------------------------------------------
\* User mode and the system calls (trampoline.c: handle_trap,
\* handle_syscall)
\* ------------------------------------------------------------------------

\* The trampoline's use of sscratch on entry: csrrw sp, sscratch, sp takes
\* the supervisor stack address from sscratch, addi sp, sp, -4 * 31 makes
\* room for the trap frame, and after the registers are stored
\* addi a0, sp, 4 * 31; csrw sscratch, a0 writes sscratch again.
TrapEntrySscratchBelowFrame(sscratch) == [sscratch EXCEPT !.off = @ - 4 * 31]

TrapEntrySscratch(sscratch) == [sscratch EXCEPT !.off = (@ - 4 * 31) + 4 * 31]

\* The running process executes ecall with the registers of f: the hart
\* sets scause and sepc and enters the trampoline, which saves the registers
\* in a trap frame and calls handle_trap.
Ecall(f) ==
    /\ pc = "user"
    /\ frame' = f
    /\ \E site \in EcallSites :
          csr' = [csr EXCEPT !.scause = SCAUSE_ECALL, !.sepc = site,
                             !.sscratch = TrapEntrySscratch(@)]
    /\ pc' = "trap"
    /\ last' = [op |-> "ecall"]
    /\ UNCHANGED <<procvars, fsvars, panic, hwvars>>

UserEcall == \E f \in PlainEcalls : Ecall(f)

\* An instruction of the running process raises an exception other than
\* ecall.
UserException ==
    /\ pc = "user"
    /\ \E cause \in OtherCauses, site \in FaultSites :
          csr' = [csr EXCEPT !.scause = cause, !.sepc = site,
                             !.sscratch = TrapEntrySscratch(@)]
    /\ pc' = "trap"
    /\ last' = [op |-> "exception"]
    /\ UNCHANGED <<procvars, fsvars, frame, panic, hwvars>>

\* handle_trap with scause other than SCAUSE_ECALL: PANIC, which does not
\* return.
TrapPanic ==
    /\ pc = "trap"
    /\ csr.scause # SCAUSE_ECALL
    /\ panic' = "unexpected trap"
    /\ pc' = "panic"
    /\ last' = [op |-> "trap_panic"]
    /\ UNCHANGED <<procvars, fsvars, frame, csr, hwvars>>

UserFileEcall == \E f \in FileEcalls : Ecall(f)

\* get_current_process(): the currently running process.
get_current_process == current_proc

\* SYS_PUTCHAR: putchar(f->a0); a0 is not written.
SysPutchar ==
    /\ pc = "trap" /\ csr.scause = SCAUSE_ECALL /\ frame.a3 = SYS_PUTCHAR
    /\ pc' = "sret"
    /\ last' = [op |-> "putchar", proc |-> current_proc]
    /\ UNCHANGED <<procvars, fsvars, frame, csr, hwvars, panic>>

\* SYS_GETCHAR: f->a0 = getchar(), a byte of the console.
SysGetchar ==
    /\ pc = "trap" /\ csr.scause = SCAUSE_ECALL /\ frame.a3 = SYS_GETCHAR
    /\ \E ch \in {13, 97} : frame' = [frame EXCEPT !.a0 = ch]
    /\ pc' = "sret"
    /\ last' = [op |-> "getchar", proc |-> current_proc]
    /\ UNCHANGED <<procvars, fsvars, csr, hwvars, panic>>

\* SYS_EXIT: current->state = PROC_EXITED; yield(); PANIC("unreachable").
SysExit ==
    /\ pc = "trap" /\ csr.scause = SCAUSE_ECALL /\ frame.a3 = SYS_EXIT
    /\ LET cur == get_current_process
       IN  DoYield([procs EXCEPT ![cur].state = PROC_EXITED], "sys_exit", "exit")
    /\ UNCHANGED <<fsvars, frame>>

\* SYS_SHUTDOWN: the firmware powers the machine off.
SysShutdown ==
    /\ pc = "trap" /\ csr.scause = SCAUSE_ECALL /\ frame.a3 = SYS_SHUTDOWN
    /\ pc' = "shutdown"
    /\ last' = [op |-> "shutdown", proc |-> current_proc]
    /\ UNCHANGED <<procvars, fsvars, frame, csr, hwvars, panic>>

\* Any other value of a3: PANIC("unexpected syscall").
SysUnknown ==
    /\ pc = "trap"
    /\ csr.scause = SCAUSE_ECALL
    /\ frame.a3 \notin {SYS_PUTCHAR, SYS_GETCHAR, SYS_EXIT, SYS_READFILE,
                        SYS_WRITEFILE, SYS_SHUTDOWN}
    /\ pc' = "panic"
    /\ panic' = "unexpected syscall"
    /\ last' = [op |-> "unknown", proc |-> current_proc]
    /\ UNCHANGED <<procvars, fsvars, frame, csr, hwvars>>

\* memcpy(dst, src, n) into an array of `size` bytes, for 0 <= n.
memcpy(dst, size, src, n) == Trim(Clip(Store(dst, 0, Bytes(src, 0, n)), size))

\* The length after the cap of handle_syscall: only a len above
\* sizeof(file->data) is replaced, by sizeof(file->data) for a write and by
\* file->size for a read.
file_len(a3, len, size) ==
    IF len > DataSize
    THEN IF a3 = SYS_WRITEFILE THEN DataSize ELSE size
    ELSE len

\* The kernel faults on an address that is not mapped: the trap handler
\* PANICs on every scause but ECALL.
Fault(op, i) ==
    /\ pc' = "panic"
    /\ panic' = "unexpected trap"
    /\ oob' = TRUE
    /\ last' = [op |-> op, file |-> i, nreq |-> 0]
    /\ UNCHANGED <<procvars, files, disk, blk, frame, csr, hwvars>>

\* SYS_READFILE. A negative len is a size_t near 2^32 for memcpy, which
\* runs off the mapped pages. The byte at data[DataSize] and beyond is not
\* the file's.
SysReadfile ==
    /\ pc = "trap" /\ csr.scause = SCAUSE_ECALL /\ frame.a3 = SYS_READFILE
    /\ LET i == fs_lookup(files, UserStrings[frame.a0])
       IN  IF i = NULL
           THEN /\ frame' = [frame EXCEPT !.a0 = -1]
                /\ pc' = "sret"
                /\ last' = [op |-> "readfile", file |-> NULL, nreq |-> 0]
                /\ UNCHANGED <<procvars, fsvars, csr, hwvars, panic>>
           ELSE LET len == file_len(frame.a3, frame.a2, files[i].size)
                IN  IF len < 0
                    THEN Fault("readfile", i)
                    ELSE /\ frame' = [frame EXCEPT !.a0 = len]
                         /\ pc' = "sret"
                         /\ oob' = (oob \/ len > DataSize)
                         /\ last' = [op |-> "readfile", file |-> i, nreq |-> 0,
                                     buf |-> Bytes(files[i].data, 0, len)]
                         /\ UNCHANGED <<procvars, files, disk, blk, csr, hwvars, panic>>

\* SYS_WRITEFILE: the copy into the file, then flush_fs, which fills disk[]
\* and hands it to read_write_disk sector by sector. The handler runs under
\* the page table of the calling process, and the driver's first register
\* access (virtq_kick's notify) faults when that table does not map the
\* device's register page: handle_trap PANICs, no sector is written.
SysWritefile ==
    /\ pc = "trap" /\ csr.scause = SCAUSE_ECALL /\ frame.a3 = SYS_WRITEFILE
    /\ LET i == fs_lookup(files, UserStrings[frame.a0])
       IN  IF i = NULL
           THEN /\ frame' = [frame EXCEPT !.a0 = -1]
                /\ pc' = "sret"
                /\ last' = [op |-> "writefile", file |-> NULL, nreq |-> 0]
                /\ UNCHANGED <<procvars, fsvars, csr, hwvars, panic>>
           ELSE LET len == file_len(frame.a3, frame.a2, files[i].size)
                IN  IF len < 0
                    THEN Fault("writefile", i)
                    ELSE /\ files' = [files EXCEPT
                                        ![i].data = memcpy(@, DataSize, UserBufs[frame.a1], len),
                                        ![i].size = len]
                         /\ \E r \in {flush_fs(files', blk, blk_capacity)} :
                               /\ disk' = r.disk
                               /\ oob' = (oob \/ r.oob)
                               /\ IF r.nreq = 0 \/ MmioAccessible(procs, csr.satp)
                                  THEN /\ blk' = r.blk
                                       /\ last' = [op |-> "writefile", file |-> i,
                                                   nreq |-> r.nreq]
                                       /\ frame' = [frame EXCEPT !.a0 = len]
                                       /\ pc' = "sret"
                                       /\ UNCHANGED panic
                                  ELSE /\ blk' = blk
                                       /\ last' = [op |-> "writefile", file |-> i,
                                                   nreq |-> 0]
                                       /\ pc' = "panic"
                                       /\ panic' = "unexpected trap"
                                       /\ UNCHANGED frame
                         /\ UNCHANGED <<procvars, csr, hwvars>>

\* handle_trap's WRITE_CSR(sepc, user_pc) and the trampoline's tail: the
\* registers are reloaded from the trap frame, which is popped, and sret
\* goes back to the instruction after the ecall.
Sret ==
    /\ pc = "sret"
    /\ csr' = [csr EXCEPT !.sepc = NextPc(@)]
    /\ pc' = "user"
    /\ frame' = NoArgs(0)
    /\ last' = [op |-> "sret"]
    /\ UNCHANGED <<procvars, fsvars, panic, hwvars>>

\* The kernel as built: the boot sequence, then the user program's system
\* calls.
Next ==
    \/ InitIdleProcess
    \/ InitUser
    \/ InitFs
    \/ KernelMainYield
    \/ UserEcall
    \/ UserException
    \/ TrapPanic
    \/ UserFileEcall
    \/ SysPutchar
    \/ SysGetchar
    \/ SysExit
    \/ SysReadfile
    \/ SysWritefile
    \/ SysShutdown
    \/ SysUnknown
    \/ Sret

Spec == Init /\ [][Next]_vars

\* The operations of proc.c in any order: after the boot sequence on a
\* device without archive, more processes are created, and the running
\* process yields or makes a system call without file arguments.
NextProcs ==
    \/ InitIdleProcess
    \/ InitUser
    \/ InitFs
    \/ KernelMainYield
    \/ CreateProcessOp
    \/ YieldOp
    \/ UserEcall
    \/ SysPutchar
    \/ SysGetchar
    \/ SysExit
    \/ SysShutdown
    \/ SysUnknown
    \/ Sret

SpecProcs == InitProcs /\ [][NextProcs]_vars

\* ------------------------------------------------------------------------
\* The file system alone: flush_fs on a file table, then a restart of the
\* machine and init_fs
\* ------------------------------------------------------------------------

\* File sizes: empty, small, a sector, one byte more, and the full buffer.
FsSizes == {0, 16, SECTOR_SIZE, SECTOR_SIZE + 1, 600, DataSize}

NoFile == [in_use |-> FALSE, name |-> <<>>, data |-> <<>>, size |-> 0]

MkFile(name, seed, size) ==
    [in_use |-> TRUE, name |-> name, data |-> Pattern(seed, size), size |-> size]

\* The file tables init_fs and WRITEFILE can produce: the in-use slots come
\* first and have a name.
FileTables ==
    {[i \in FileSlots |-> NoFile]}
    \cup {[i \in FileSlots |-> IF i = 0 THEN MkFile(NameA, 3, n) ELSE NoFile] : n \in FsSizes}
    \cup {[i \in FileSlots |-> IF i = 0 THEN MkFile(NameA, 3, n) ELSE MkFile(NameB, 5, m)] :
            n \in FsSizes, m \in FsSizes}

\* The kernel during boot, before paging is on, holding any of the file
\* tables and about to flush it.
InitFsOnly ==
    /\ procs = [i \in Slots |-> UnusedSlot]
    /\ current_proc = NULL
    /\ idle_proc = NULL
    /\ next_paddr = 0
    /\ files \in FileTables
    /\ disk = <<>>
    /\ blk \in {<<>>, Trim(Clip(TarMember(NameZ, 600, Pattern(7, 600)), blk_capacity))}
    /\ oob = FALSE
    /\ frame = NoArgs(0)
    /\ csr = [scause |-> 0, sepc |-> Word(0, 0), satp |-> NULL,
              sscratch |-> NoStack, stvec |-> "trampoline"]
    /\ virtio = virtq_init
    /\ mem = <<>>
    /\ console = -1
    /\ regs = <<>>
    /\ pc = "flush_fs"
    /\ panic = "none"
    /\ last = [op |-> "none"]

\* flush_fs() on the current table.
FlushFs ==
    /\ pc = "flush_fs"
    /\ \E r \in {flush_fs(files, blk, blk_capacity)} :
          /\ disk' = r.disk
          /\ blk' = r.blk
          /\ oob' = (oob \/ r.oob)
          /\ last' = [op |-> "flush_fs", nreq |-> r.nreq]
    /\ pc' = "reboot"
    /\ UNCHANGED <<procvars, files, frame, csr, hwvars, panic>>

\* The machine restarts: the .bss (files[], disk[]) is zero again and
\* init_fs loads what the device holds. `before` keeps the file table that
\* was flushed.
RebootInitFs ==
    /\ pc = "reboot"
    /\ \E r \in {init_fs([i \in FileSlots |-> NoFile], <<>>, blk, blk_capacity)} :
          /\ files' = r.files
          /\ disk' = r.disk
          /\ oob' = r.oob
          /\ last' = [op |-> "reboot_init_fs", before |-> files, nreq |-> r.nreq]
    /\ procs' = [i \in Slots |-> UnusedSlot]
    /\ current_proc' = NULL
    /\ idle_proc' = NULL
    /\ next_paddr' = DriverPages
    /\ frame' = NoArgs(0)
    /\ csr' = [scause |-> 0, sepc |-> Word(0, 0), satp |-> NULL,
              sscratch |-> NoStack, stvec |-> "trampoline"]
    /\ pc' = "loaded"
    /\ UNCHANGED <<blk, panic, hwvars>>

NextFs == FlushFs \/ RebootInitFs

SpecFs == InitFsOnly /\ [][NextFs]_vars

\* ------------------------------------------------------------------------
\* The block driver's virtqueue and the device (virtio_disk.c: virtq_kick,
\* virtq_is_busy, read_write_disk). The kernel operations above take a
\* read_write_disk call as one synchronous transfer; here a call is taken
\* apart into the driver's writes to the shared queue, the device's
\* completion, which runs beside the driver, and the driver's polling.
\* ------------------------------------------------------------------------

\* uint16_t x; x++
Inc16(x) == (x + 1) % 65536

virtq_never_busy(v) == FALSE

virtq_is_busy(v) == v.last_seen_used_index # v.used_index

\* Requests completed since virtq_init in the initial states, and the
\* number of requests made after that.
VqStarts == {0, 65533}

MaxRequests == 4

SectorData == Pattern(5, SECTOR_SIZE)

InitVq ==
    /\ procs = [i \in Slots |-> UnusedSlot]
    /\ current_proc = NULL
    /\ idle_proc = NULL
    /\ next_paddr = 0
    /\ files = [i \in FileSlots |-> NoFile]
    /\ disk = <<>>
    /\ oob = FALSE
    /\ frame = NoArgs(0)
    /\ csr = [scause |-> 0, sepc |-> Word(0, 0), satp |-> NULL,
              sscratch |-> NoStack, stvec |-> "trampoline"]
    /\ panic = "none"
    /\ last = [op |-> "none"]
    /\ blk = <<>>
    /\ \E n \in VqStarts :
          virtio = [virtq_init EXCEPT !.avail_index = n, !.used_index = n,
                                      !.last_seen_used_index = n]
    /\ mem = <<>>
    /\ console = -1
    /\ regs = <<>>
    /\ pc = "driver"

\* read_write_disk with a sector at or beyond the capacity: FAILED, return.
ReadWriteDiskReject ==
    /\ pc = "driver"
    /\ \E sector \in {BlkSectors, BlkSectors + 1} :
          /\ ~SectorInRange(blk_capacity, sector)
          /\ last' = [op |-> "read_write_disk", submitted |-> FALSE, sector |-> sector]
    /\ UNCHANGED <<procvars, fsvars, frame, csr, hwvars, pc, panic>>

\* read_write_disk fills the request and the three descriptors; virtq_kick
\* puts the chain's head in the avail ring and increments avail.index.
VirtqKickAvail ==
    /\ pc = "driver"
    /\ \E n \in VqStarts : (virtio.avail_index - n) % 65536 < MaxRequests
    /\ \E sector \in {0, BlkSectors - 1}, is_write \in BOOLEAN :
          /\ SectorInRange(blk_capacity, sector)
          /\ virtio' = [virtio EXCEPT !.blk_req = [sector |-> sector, is_write |-> is_write],
                                      !.avail_index = Inc16(@)]
    /\ pc' = "virtq_kick"
    /\ last' = [op |-> "virtq_kick_avail"]
    /\ UNCHANGED <<procvars, fsvars, frame, csr, mem, console, regs, panic>>

\* virtq_kick writes the notify register and increments
\* last_seen_used_index; the polling loop follows.
VirtqKickNotify ==
    /\ pc = "virtq_kick"
    /\ virtio' = [virtio EXCEPT !.last_seen_used_index = Inc16(@)]
    /\ pc' = "poll"
    /\ last' = [op |-> "virtq_kick_notify"]
    /\ UNCHANGED <<procvars, fsvars, frame, csr, mem, console, regs, panic>>

\* The device takes the chain the avail ring offers, transfers the sector
\* and increments used.index.
DeviceComplete ==
    /\ virtio.avail_index # virtio.used_index
    /\ blk' = IF virtio.blk_req.is_write
              THEN Trim(Store(blk, virtio.blk_req.sector * SECTOR_SIZE, SectorData))
              ELSE blk
    /\ virtio' = [virtio EXCEPT !.used_index = Inc16(@)]
    /\ last' = [op |-> "device_complete"]
    /\ UNCHANGED <<procvars, files, disk, oob, frame, csr, mem, console, regs, pc, panic>>

\* while (virtq_is_busy(vq)); is left, the status is checked, a read's data
\* is copied to the caller, read_write_disk returns.
ReadWriteDiskReturn ==
    /\ pc = "poll"
    /\ ~virtq_is_busy(virtio)
    /\ pc' = "driver"
    /\ last' = [op |-> "read_write_disk", submitted |-> TRUE,
                sector |-> virtio.blk_req.sector,
                buf |-> IF virtio.blk_req.is_write THEN <<>>
                        ELSE Bytes(blk, virtio.blk_req.sector * SECTOR_SIZE, SECTOR_SIZE)]
    /\ UNCHANGED <<procvars, fsvars, frame, csr, hwvars, panic>>

NextVq ==
    \/ ReadWriteDiskReject
    \/ VirtqKickAvail
    \/ VirtqKickNotify
    \/ DeviceComplete
    \/ ReadWriteDiskReturn

SpecVq == InitVq /\ [][NextVq]_vars

\* SpecVq with a hart that goes on executing read_write_disk (virtq_kick's
\* second half, the test of the polling loop) and a device that completes
\* every request the avail ring offers.
SpecVqLive ==
    /\ SpecVq
    /\ WF_vars(VirtqKickNotify)
    /\ WF_vars(ReadWriteDiskReturn)
    /\ WF_vars(DeviceComplete)

\* ------------------------------------------------------------------------
\* Page tables (vm.c: map_page) and the Sv32 walk. An address is a page
\* number and an offset in the page; a table is the array of its entries at
\* the indexes the calls use, a page table entry the 32-bit value the code
\* builds: the physical page number above bit 10, the flags below.
\* ------------------------------------------------------------------------
PAGE_V == 1

PAGE_R == 2

PAGE_W == 4

PAGE_X == 8

PAGE_U == 16

Addr(page, off) == [page |-> page, off |-> off]

\* (vaddr >> 22) & 0x3ff and (vaddr >> 12) & 0x3ff.
Vpn1(a) == (a.page \div 1024) % 1024

Vpn0(a) == a.page % 1024

\* flags | PAGE_V.
OrValid(flags) == flags + (PAGE_V - (flags % 2))

\* ((paddr / PAGE_SIZE) << 10) | flags | PAGE_V
LeafPteNoValid(paddr, flags) == paddr.page * 1024 + flags

LeafPte(paddr, flags) == paddr.page * 1024 + OrValid(flags)

\* The pages and flags of the map_page calls.
VmVaddrs == {Addr(UserBasePage, 0), Addr(UserBasePage + 1, 0), Addr(KernelBasePage, 0),
             Addr(VirtioPage, 0)}

VmPaddrs == {Addr(FreeRamPage + 7, 0), Addr(VirtioPage, 0)}

VmFlags == {PAGE_R + PAGE_W, PAGE_U + PAGE_R + PAGE_W + PAGE_X, PAGE_U, PAGE_W}

VmIndexes == {Vpn1(a) : a \in VmVaddrs} \cup {Vpn0(a) : a \in VmVaddrs}

\* A frame as alloc_pages returns it: zero-filled.
ZeroTable == [i \in VmIndexes |-> 0]

\* The table in frame f (frames count from __free_ram).
Table(m, f) == m[f + 1]

\* map_page(table1, vaddr, paddr, flags) with table1 in frame root, on
\* memory m with the allocator's cursor at `cursor`.
map_page(m, cursor, root, vaddr, paddr, flags) ==
    IF vaddr.off # 0 \/ paddr.off # 0
    THEN [panic |-> "Unaligned", mem |-> m, next_paddr |-> cursor]
    ELSE LET fresh == Table(m, root)[Vpn1(vaddr)] % 2 = 0
         IN  IF fresh /\ cursor + 1 > FreeRamPages
             THEN [panic |-> "out of memory", mem |-> m, next_paddr |-> cursor + 1]
             ELSE LET m1 == IF fresh
                            THEN [Append(m, ZeroTable) EXCEPT
                                     ![root + 1][Vpn1(vaddr)] =
                                         (FreeRamPage + cursor) * 1024 + PAGE_V]
                            ELSE m
                      table0 == (Table(m1, root)[Vpn1(vaddr)] \div 1024) - FreeRamPage
                  IN  [panic |-> "none",
                       mem |-> [m1 EXCEPT ![table0 + 1][Vpn0(vaddr)] = LeafPte(paddr, flags)],
                       next_paddr |-> IF fresh THEN cursor + 1 ELSE cursor]

\* The Sv32 translation of address a by the table in frame root: the level
\* of the leaf, its physical page and flags; level -1 is a page fault (an
\* entry without V, an entry with W and without R, or an entry at level 0
\* that is no leaf). An entry with V and none of R, W, X points to a table.
IsLeaf(pte) == (pte \div 2) % 8 # 0

Reserved(pte) == (pte \div 2) % 4 = 2

Walk(m, root, a) ==
    LET pte1 == Table(m, root)[Vpn1(a)]
    IN  IF pte1 % 2 = 0 \/ Reserved(pte1) THEN [level |-> -1, page |-> 0, flags |-> 0]
        ELSE IF IsLeaf(pte1) THEN [level |-> 1, page |-> pte1 \div 1024, flags |-> pte1 % 1024]
        ELSE LET pte0 == Table(m, (pte1 \div 1024) - FreeRamPage)[Vpn0(a)]
             IN  IF pte0 % 2 = 0 \/ Reserved(pte0) \/ ~IsLeaf(pte0)
                 THEN [level |-> -1, page |-> 0, flags |-> 0]
                 ELSE [level |-> 0, page |-> pte0 \div 1024, flags |-> pte0 % 1024]

\* A root table fresh from alloc_pages(1), as create_process makes it; no
\* page mapped yet.
InitVm ==
    /\ procs = [i \in Slots |-> UnusedSlot]
    /\ current_proc = NULL
    /\ idle_proc = NULL
    /\ next_paddr = 1
    /\ files = [i \in FileSlots |-> NoFile]
    /\ disk = <<>>
    /\ blk = <<>>
    /\ oob = FALSE
    /\ frame = NoArgs(0)
    /\ csr = [scause |-> 0, sepc |-> Word(0, 0), satp |-> NULL,
              sscratch |-> NoStack, stvec |-> "trampoline"]
    /\ virtio = virtq_init
    /\ mem = <<ZeroTable>>
    /\ console = -1
    /\ regs = <<>>
    /\ pc = "map_page"
    /\ panic = "none"
    /\ last = [op |-> "none", mapped |-> {}]

\* A map_page call on the root table. `mapped` keeps, for every virtual
\* page, the arguments of the latest call that mapped it.
MapPage ==
    /\ pc = "map_page"
    /\ \E vaddr \in VmVaddrs \cup {Addr(UserBasePage, 4)},
          paddr \in VmPaddrs \cup {Addr(FreeRamPage, 2048)},
          flags \in VmFlags :
          LET r == map_page(mem, next_paddr, 0, vaddr, paddr, flags)
          IN  /\ mem' = r.mem
              /\ next_paddr' = r.next_paddr
              /\ panic' = r.panic
              /\ pc' = IF r.panic = "none" THEN "map_page" ELSE "panic"
              /\ last' = [op |-> "map_page",
                          mapped |-> IF r.panic # "none" THEN last.mapped
                                     ELSE {c \in last.mapped : c.vaddr # vaddr}
                                          \cup {[vaddr |-> vaddr, paddr |-> paddr,
                                                 flags |-> flags]}]
    /\ UNCHANGED <<procs, current_proc, idle_proc, fsvars, frame, csr, virtio, console, regs>>

NextVm == MapPage

SpecVm == InitVm /\ [][NextVm]_vars

\* ------------------------------------------------------------------------
\* The frame allocator by itself (alloc.c: alloc_pages), with the width of
\* its arithmetic. Addresses are page-aligned, so they are kept as page
\* numbers below AddressSpacePages and n * PAGE_SIZE, truncated to 32 bits,
\* is n % AddressSpacePages pages.
\* ------------------------------------------------------------------------
AddressSpacePages == (65536 \div PAGE_SIZE) * 65536

\* The requests: none, one page, two, more than the free RAM, and two
\* whose byte count does not fit 32 bits.
AllocCounts == {0, 1, 2, FreeRamPages + 1, AddressSpacePages, AddressSpacePages + 1}

\* A frame with something in it.
UsedTable == [i \in VmIndexes |-> PAGE_V]

\* alloc_pages(n) with the cursor `cursor` pages after __free_ram: the
\* address returned, the new cursor, the number of pages memset clears and
\* whether the call ends in PANIC.
alloc_pages(cursor, n) ==
    LET size == n % AddressSpacePages
        next == (FreeRamPage + cursor + size) % AddressSpacePages
    IN  [paddr |-> cursor,
         next_paddr |-> next - FreeRamPage,
         cleared |-> size,
         panic |-> IF next > FreeRamEndPage THEN "out of memory" ELSE "none"]

\* The allocator before its first call; the free RAM holds whatever the
\* last run left in it.
InitAlloc ==
    /\ procs = [i \in Slots |-> UnusedSlot]
    /\ current_proc = NULL
    /\ idle_proc = NULL
    /\ next_paddr = 0
    /\ files = [i \in FileSlots |-> NoFile]
    /\ disk = <<>>
    /\ blk = <<>>
    /\ oob = FALSE
    /\ frame = NoArgs(0)
    /\ csr = [scause |-> 0, sepc |-> Word(0, 0), satp |-> NULL,
              sscratch |-> NoStack, stvec |-> "trampoline"]
    /\ virtio = virtq_init
    /\ mem = [f \in 1..FreeRamPages |-> UsedTable]
    /\ console = -1
    /\ regs = <<>>
    /\ pc = "alloc_pages"
    /\ panic = "none"
    /\ last = [op |-> "none", n |-> 0, cursor |-> 0, paddr |-> 0, returned |-> {}]

\* One call of alloc_pages. `returned` keeps the frames of the regions
\* returned by the earlier calls; the caller fills the region it got.
AllocPages ==
    /\ pc = "alloc_pages"
    /\ \E n \in AllocCounts :
          LET r == alloc_pages(next_paddr, n)
              region == r.paddr .. (r.paddr + r.cleared - 1)
          IN  /\ next_paddr' = r.next_paddr
              /\ panic' = r.panic
              /\ pc' = IF r.panic = "none" THEN "caller" ELSE "panic"
              /\ mem' = IF r.panic # "none" THEN mem
                        ELSE [f \in 1..FreeRamPages |->
                                 IF f - 1 \in region THEN ZeroTable ELSE mem[f]]
              /\ last' = [op |-> "alloc_pages", n |-> n, cursor |-> next_paddr,
                          paddr |-> r.paddr, returned |-> last.returned \cup
                              (IF last.op = "use"
                               THEN last.paddr .. (last.paddr + (last.n % AddressSpacePages) - 1)
                               ELSE {})]
    /\ UNCHANGED <<procs, current_proc, idle_proc, fsvars, frame, csr, virtio, console, regs>>

\* The caller writes into the region it was given.
UseRegion ==
    /\ pc = "caller"
    /\ mem' = [f \in 1..FreeRamPages |->
                  IF f - 1 \in last.paddr .. (last.paddr + (last.n % AddressSpacePages) - 1)
                  THEN UsedTable ELSE mem[f]]
    /\ last' = [last EXCEPT !.op = "use"]
    /\ pc' = "alloc_pages"
    /\ UNCHANGED <<procvars, fsvars, frame, csr, virtio, console, regs, panic>>

NextAlloc == AllocPages \/ UseRegion

SpecAlloc == InitAlloc /\ [][NextAlloc]_vars

\* ------------------------------------------------------------------------
\* The console (sbi.c: getchar). The kernel with the loop of getchar taken
\* one firmware call at a time, for a program that makes no file syscall.
\* ------------------------------------------------------------------------

\* The bytes a key press leaves in the firmware's console.
ConsoleBytes == {0, 13, 97, 255}

\* sbi_call(0, .., SYS_GETCHAR): ret.error is the pending byte, or negative
\* when there is none.
sbi_getchar(pending) == pending

\* if (ret.error >= 0) return ret.error;
GetcharReturnsAlways(error) == TRUE

GetcharReturns(error) == error >= 0

AtGetchar == pc = "trap" /\ csr.scause = SCAUSE_ECALL /\ frame.a3 = SYS_GETCHAR

\* A byte arrives at the console.
KeyPress ==
    /\ console = -1
    /\ regs = <<>>
    /\ console' \in ConsoleBytes
    /\ UNCHANGED <<procvars, fsvars, frame, csr, virtio, mem, regs, pc, panic, last>>

\* An iteration of getchar's loop that finds no byte: the loop goes on.
GetcharRetry ==
    /\ AtGetchar
    /\ ~GetcharReturns(sbi_getchar(console))
    /\ last' = [op |-> "getchar_retry", proc |-> current_proc]
    /\ UNCHANGED <<procvars, fsvars, frame, csr, hwvars, pc, panic>>

\* The iteration that gets a byte: the firmware hands it over, getchar
\* returns it and handle_syscall stores it in f->a0.
GetcharReturn ==
    /\ AtGetchar
    /\ GetcharReturns(sbi_getchar(console))
    /\ frame' = [frame EXCEPT !.a0 = sbi_getchar(console)]
    /\ console' = -1
    /\ pc' = "sret"
    /\ last' = [op |-> "getchar", proc |-> current_proc,
                retried |-> last.op = "getchar_retry"]
    /\ UNCHANGED <<procvars, fsvars, csr, virtio, mem, regs, panic>>

NextConsole ==
    \/ InitIdleProcess
    \/ InitUser
    \/ InitFs
    \/ KernelMainYield
    \/ UserEcall
    \/ KeyPress
    \/ SysPutchar
    \/ GetcharRetry
    \/ GetcharReturn
    \/ SysExit
    \/ SysShutdown
    \/ SysUnknown
    \/ Sret

SpecConsole == Init /\ [][NextConsole]_vars

\* The hart runs getchar's loop without interruption (no other hart, no
\* interrupt enabled in supervisor mode), so an iteration that can return
\* does.
SpecConsoleLive == SpecConsole /\ WF_vars(GetcharReturn)

\* ------------------------------------------------------------------------
\* The switch of yield one instruction at a time (proc.c: yield, lines
\* 191-203): the four instructions of the asm block, then the C statements
\* that make the switch (current_proc = next; switch_context(..)). The
\* specification is the kernel with processes created beyond init_user's
\* that exit one after the other.
\* ------------------------------------------------------------------------

\* SATP_SV32 | ((uint32_t)next->page_table / PAGE_SIZE), as the mode bit and
\* the page number; the table in frame `root` is at the page-aligned
\* address Addr(FreeRamPage + root, 0), whose quotient by PAGE_SIZE is its
\* page number.
SatpValue(root) == [mode |-> 1, ppn |-> Addr(FreeRamPage + root, 0).page]

\* The program order of the switch: where the hart is after each step.
AfterStepOneFence(step) ==
    CASE step = "sfence_vma_1"  -> "csrw_satp"
      [] step = "csrw_satp"     -> "csrw_sscratch"
      [] step = "sfence_vma_2"  -> "csrw_sscratch"
      [] step = "csrw_sscratch" -> "switch_context"

AfterStep(step) ==
    CASE step = "sfence_vma_1"  -> "csrw_satp"
      [] step = "csrw_satp"     -> "sfence_vma_2"
      [] step = "sfence_vma_2"  -> "csrw_sscratch"
      [] step = "csrw_sscratch" -> "switch_context"

\* yield() up to the asm block: the scan and the test next == current_proc.
\* A selection that is the current process or NULL ends as in DoYield; any
\* other goes on to the asm block, with the call's next and caller kept in
\* `last`, and `trace` the instructions of the switch executed so far.
YieldBegin(p, caller, op) ==
    LET next == YieldNext(p, current_proc, idle_proc)
    IN  IF next \in {NULL, current_proc}
        THEN DoYield(p, caller, op)
        ELSE /\ procs' = p
             /\ pc' = "sfence_vma_1"
             /\ last' = [op |-> "yield_begin", proc |-> current_proc, next |-> next,
                         caller |-> caller, name |-> op, trace |-> <<>>]
             /\ UNCHANGED <<current_proc, idle_proc, next_paddr, csr, hwvars, panic>>

KernelMainYieldBegin ==
    /\ pc = "yield"
    /\ YieldBegin(procs, "kernel_main", "kernel_main_yield")
    /\ UNCHANGED <<fsvars, frame>>

SysExitBegin ==
    /\ pc = "trap" /\ csr.scause = SCAUSE_ECALL /\ frame.a3 = SYS_EXIT
    /\ LET cur == get_current_process
       IN  YieldBegin([procs EXCEPT ![cur].state = PROC_EXITED], "sys_exit", "exit")
    /\ UNCHANGED <<fsvars, frame>>

ExitEcall == Ecall(NoArgs(SYS_EXIT))

\* sfence.vma (proc.c:192 and 194).
SfenceVma ==
    /\ pc \in {"sfence_vma_1", "sfence_vma_2"}
    /\ pc' = AfterStep(pc)
    /\ last' = [last EXCEPT !.trace = Append(@, [insn |-> "sfence.vma"])]
    /\ UNCHANGED <<procvars, fsvars, frame, csr, hwvars, panic>>

\* csrw satp, %[satp] (proc.c:193, 197).
CsrwSatp ==
    /\ pc = "csrw_satp"
    /\ pc' = AfterStep(pc)
    /\ csr' = [csr EXCEPT !.satp = procs[last.next].page_table.root]
    /\ last' = [last EXCEPT !.trace =
                   Append(@, [insn |-> "csrw satp",
                              value |-> SatpValue(procs[last.next].page_table.root)])]
    /\ UNCHANGED <<procvars, fsvars, frame, hwvars, panic>>

\* csrw sscratch, %[sscratch] (proc.c:195, 198).
CsrwSscratch ==
    /\ pc = "csrw_sscratch"
    /\ pc' = AfterStep(pc)
    /\ csr' = [csr EXCEPT !.sscratch = StackTop(last.next)]
    /\ last' = [last EXCEPT !.trace =
                   Append(@, [insn |-> "csrw sscratch", value |-> StackTop(last.next)])]
    /\ UNCHANGED <<procvars, fsvars, frame, hwvars, panic>>

\* prev = current_proc; current_proc = next; switch_context(&prev->sp,
\* &next->sp): the caller's frame is saved and the incoming process goes on
\* where its saved frame says.
SwitchContext ==
    /\ pc = "switch_context"
    /\ procs' = [procs EXCEPT ![current_proc].sp = last.caller]
    /\ current_proc' = last.next
    /\ pc' = Resume(procs[last.next].sp).pc
    /\ panic' = Resume(procs[last.next].sp).panic
    /\ csr' = [csr EXCEPT !.sepc = IF procs[last.next].sp = "user_entry"
                                   THEN USER_BASE ELSE @]
    /\ last' = [op |-> last.name, proc |-> current_proc, next |-> last.next,
                again |-> FALSE,
                trace |-> Append(last.trace, [insn |-> "switch_context"])]
    /\ UNCHANGED <<idle_proc, next_paddr, fsvars, frame, hwvars>>

NextSwitch ==
    \/ InitIdleProcess
    \/ InitUser
    \/ InitFs
    \/ CreateProcessOp
    \/ KernelMainYieldBegin
    \/ ExitEcall
    \/ SysExitBegin
    \/ SfenceVma
    \/ CsrwSatp
    \/ CsrwSscratch
    \/ SwitchContext

SpecSwitch == InitProcs /\ [][NextSwitch]_vars

\* ------------------------------------------------------------------------
\* The trap frame in full (trampoline.c: trampoline; trampoline.h: struct
\* trap_frame). The kernel as built, with the 31 registers of the user
\* program stored into the frame at the ecall and loaded from it at the
\* return.
\* ------------------------------------------------------------------------

\* The fields of struct trap_frame, in order: field k is at offset 4 * k.
TrapFrameFields ==
    << "ra", "gp", "tp", "t0", "t1", "t2", "t3", "t4", "t5", "t6",
       "a0", "a1", "a2", "a3", "a4", "a5", "a6", "a7",
       "s0", "s1", "s2", "s3", "s4", "s5", "s6", "s7", "s8", "s9", "s10", "s11",
       "sp" >>

\* The entry path: sw <register>, 4 * k(sp) for k = 0 .. 29, then the user
\* sp, which csrrw left in sscratch, through a0 to 4 * 30(sp).
StoreOrder ==
    << "ra", "gp", "tp", "t0", "t1", "t2", "t3", "t4", "t5", "t6",
       "a0", "a1", "a2", "a3", "a4", "a5", "a6", "a7",
       "s0", "s1", "s2", "s3", "s4", "s5", "s6", "s7", "s8", "s9", "s10", "s11",
       "sp" >>

\* The return path: lw <register>, 4 * k(sp) for k = 0 .. 29, then
\* lw sp, 4 * 30(sp).
LoadOrderNoSp ==
    << "ra", "gp", "tp", "t0", "t1", "t2", "t3", "t4", "t5", "t6",
       "a0", "a1", "a2", "a3", "a4", "a5", "a6", "a7",
       "s0", "s1", "s2", "s3", "s4", "s5", "s6", "s7", "s8", "s9", "s10", "s11",
       "a0" >>

LoadOrder ==
    << "ra", "gp", "tp", "t0", "t1", "t2", "t3", "t4", "t5", "t6",
       "a0", "a1", "a2", "a3", "a4", "a5", "a6", "a7",
       "s0", "s1", "s2", "s3", "s4", "s5", "s6", "s7", "s8", "s9", "s10", "s11",
       "sp" >>

RegNames == {TrapFrameFields[k] : k \in 1 .. Len(TrapFrameFields)}

\* The frame the entry path leaves on the supervisor stack for registers r.
SaveFrame(r) ==
    [fld \in RegNames |->
        r[StoreOrder[CHOOSE k \in 1 .. Len(TrapFrameFields) : TrapFrameFields[k] = fld]]]

\* The registers after the loads of the return path from frame f; the
\* loads run in order, a later load of a register replaces an earlier one,
\* and a register that is not loaded keeps the value `kernel` it has in the
\* kernel.
LoadRegs(f, kernel) ==
    [reg \in RegNames |->
        LET ks == {k \in 1 .. Len(LoadOrder) : LoadOrder[k] = reg}
        IN  IF ks = {} THEN kernel
            ELSE f[TrapFrameFields[CHOOSE k \in ks : \A j \in ks : j <= k]]]

\* The registers of the user program at an ecall: a0 .. a3 as the ecall
\* has them, every other register with a value of its own.
UserRegs(f, seed) ==
    [reg \in RegNames |->
        CASE reg = "a0" -> f.a0
          [] reg = "a1" -> f.a1
          [] reg = "a2" -> f.a2
          [] reg = "a3" -> f.a3
          [] OTHER -> seed + (CHOOSE k \in 1 .. Len(TrapFrameFields) : TrapFrameFields[k] = reg)]

RegSeeds == {1000, 7000}

\* The running process executes ecall with the registers r and the
\* trampoline stores them in the frame.
TrampolineEntry ==
    /\ pc = "user"
    /\ \E f \in PlainEcalls \cup FileEcalls, seed \in RegSeeds :
          /\ regs' = UserRegs(f, seed)
          /\ frame' = SaveFrame(UserRegs(f, seed))
    /\ \E site \in EcallSites :
          csr' = [csr EXCEPT !.scause = SCAUSE_ECALL, !.sepc = site,
                             !.sscratch = TrapEntrySscratch(@)]
    /\ pc' = "trap"
    /\ last' = [op |-> "ecall"]
    /\ UNCHANGED <<procvars, fsvars, panic, virtio, mem, console>>

\* handle_trap has returned: sepc is written, the trampoline loads the
\* registers from the frame and executes sret.
TrampolineReturn ==
    /\ pc = "sret"
    /\ csr' = [csr EXCEPT !.sepc = NextPc(@)]
    /\ regs' = LoadRegs(frame, -1)
    /\ pc' = "user"
    /\ frame' = NoArgs(0)
    /\ last' = [op |-> "sret", handler |-> last.op, a0 |-> frame.a0]
    /\ UNCHANGED <<procvars, fsvars, panic, virtio, mem, console>>

NextTrap ==
    \/ InitIdleProcess
    \/ InitUser
    \/ InitFs
    \/ KernelMainYield
    \/ TrampolineEntry
    \/ SysPutchar
    \/ SysGetchar
    \/ SysExit
    \/ SysReadfile
    \/ SysWritefile
    \/ SysShutdown
    \/ SysUnknown
    \/ TrampolineReturn

SpecTrap == Init /\ [][NextTrap]_vars

\* ------------------------------------------------------------------------
\* The publication of a request (virtio_disk.c: read_write_disk, virtq_kick)
\* one store at a time, on a memory in which the driver's stores to normal
\* memory reach the device in any order unless a barrier separates them.
\* Here the variable virtio holds the driver's view of the request record,
\* the descriptors, the avail ring and the indexes, the view the device has
\* of them (`seen`), the stores that have not reached the device
\* (`pending`) and the steps of the current call (`trace`).
\* ------------------------------------------------------------------------
VIRTQ_DESC_F_NEXT == 1

VIRTQ_DESC_F_WRITE == 2

VIRTIO_BLK_T_IN == 0

VIRTIO_BLK_T_OUT == 1

\* An address inside the request record: blk_req_paddr + off.
ReqAddr(off) == [base |-> "blk_req", off |-> off]

ZeroDesc == [addr |-> [base |-> "none", off |-> 0], len |-> 0, flags |-> 0, next |-> 0]

\* The three descriptors read_write_disk writes (lines 211-228); descs[2].next
\* is not written and stays 0.
DescsDataAlwaysWrite(is_write) ==
    << [addr |-> ReqAddr(0), len |-> 4 * 2 + 8, flags |-> VIRTQ_DESC_F_NEXT, next |-> 1],
       [addr |-> ReqAddr(DataOffset), len |-> SECTOR_SIZE,
        flags |-> VIRTQ_DESC_F_NEXT + VIRTQ_DESC_F_WRITE, next |-> 2],
       [addr |-> ReqAddr(StatusOffset), len |-> 1, flags |-> VIRTQ_DESC_F_WRITE, next |-> 0] >>

Descs(is_write) ==
    << [addr |-> ReqAddr(0), len |-> 4 * 2 + 8, flags |-> VIRTQ_DESC_F_NEXT, next |-> 1],
       [addr |-> ReqAddr(DataOffset), len |-> SECTOR_SIZE,
        flags |-> VIRTQ_DESC_F_NEXT + (IF is_write THEN 0 ELSE VIRTQ_DESC_F_WRITE),
        next |-> 2],
       [addr |-> ReqAddr(StatusOffset), len |-> 1, flags |-> VIRTQ_DESC_F_WRITE, next |-> 0] >>

\* The caller's buffers.
KickBufs == {Pattern(5, SECTOR_SIZE), Pattern(9, SECTOR_SIZE)}

\* The memory the driver shares with the device, as virtq_init and
\* alloc_pages leave it: zeroes.
SharedInit ==
    [blk_req |-> [type |-> 0, sector |-> 0, data |-> <<>>],
     descs |-> <<ZeroDesc, ZeroDesc, ZeroDesc>>,
     ring |-> [k \in 0 .. (VIRTQ_ENTRY_NUM - 1) |-> 0],
     avail_index |-> 0]

InitKick ==
    /\ procs = [i \in Slots |-> UnusedSlot]
    /\ current_proc = NULL
    /\ idle_proc = NULL
    /\ next_paddr = 0
    /\ files = [i \in FileSlots |-> NoFile]
    /\ disk = <<>>
    /\ oob = FALSE
    /\ frame = NoArgs(0)
    /\ csr = [scause |-> 0, sepc |-> Word(0, 0), satp |-> NULL,
              sscratch |-> NoStack, stvec |-> "trampoline"]
    /\ panic = "none"
    /\ last = [op |-> "none"]
    /\ blk = <<>>
    /\ virtio = [mine |-> SharedInit, seen |-> SharedInit, pending |-> {},
                 used_index |-> 0, last_seen_used_index |-> 0, trace |-> <<>>]
    /\ mem = <<>>
    /\ console = -1
    /\ regs = <<>>
    /\ pc = "driver"

KickUnchanged == <<procvars, fsvars, frame, csr, mem, console, regs, panic>>

\* A store of the driver to the shared field fld: the driver sees it at
\* once, the device when it has propagated.
SharedStore(v, fld, value) ==
    [v EXCEPT !.mine[fld] = value, !.pending = @ \cup {fld}]

\* read_write_disk up to the call of virtq_kick: the request record (with
\* the caller's bytes for a write) and the three descriptors.
FillRequest ==
    /\ pc = "driver"
    /\ virtio.mine.avail_index < MaxRequests
    /\ \E sector \in {0, BlkSectors - 1}, is_write \in BOOLEAN, buf \in KickBufs :
          /\ virtio' = [SharedStore(SharedStore(virtio, "blk_req",
                                 [type |-> IF is_write THEN VIRTIO_BLK_T_OUT
                                                       ELSE VIRTIO_BLK_T_IN,
                                  sector |-> sector,
                                  data |-> IF is_write THEN SubSeq(buf, 1, SECTOR_SIZE)
                                                       ELSE virtio.mine.blk_req.data]),
                           "descs", Descs(is_write))
                           EXCEPT !.trace = <<>>]
          /\ last' = [op |-> "fill_request", sector |-> sector, is_write |-> is_write,
                      buf |-> buf]
    /\ pc' = "kick_ring"
    /\ UNCHANGED KickUnchanged

\* vq->avail.ring[vq->avail.index % VIRTQ_ENTRY_NUM] = desc_index;
KickRing ==
    /\ pc = "kick_ring"
    /\ virtio' = [SharedStore(virtio, "ring",
                        [virtio.mine.ring EXCEPT
                            ![virtio.mine.avail_index % VIRTQ_ENTRY_NUM] = 0])
                    EXCEPT !.trace = Append(@, "ring")]
    /\ pc' = "kick_index"
    /\ UNCHANGED <<KickUnchanged, last>>

\* vq->avail.index++;
KickIndex ==
    /\ pc = "kick_index"
    /\ virtio' = [SharedStore(virtio, "avail_index", Inc16(virtio.mine.avail_index))
                    EXCEPT !.trace = Append(@, "avail_index")]
    /\ pc' = "kick_sync"
    /\ UNCHANGED <<KickUnchanged, last>>

\* __sync_synchronize(): the hart goes on when all its earlier stores have
\* reached the device.
KickSync ==
    /\ pc = "kick_sync"
    /\ virtio.pending = {}
    /\ virtio' = [virtio EXCEPT !.trace = Append(@, "barrier")]
    /\ pc' = "kick_notify"
    /\ UNCHANGED <<KickUnchanged, last>>

\* virtio_reg_write32(VIRTIO_REG_QUEUE_NOTIFY, vq->queue_index);
KickNotify ==
    /\ pc = "kick_notify"
    /\ virtio' = [virtio EXCEPT !.trace = Append(@, "notify")]
    /\ pc' = "kick_last_seen"
    /\ UNCHANGED <<KickUnchanged, last>>

\* vq->last_seen_used_index++;
KickLastSeen ==
    /\ pc = "kick_last_seen"
    /\ virtio' = [virtio EXCEPT !.last_seen_used_index = Inc16(@),
                                !.trace = Append(@, "last_seen_used_index")]
    /\ pc' = "kick_poll"
    /\ UNCHANGED <<KickUnchanged, last>>

\* One of the driver's stores reaches the device.
Propagate ==
    /\ \E fld \in virtio.pending :
          virtio' = [virtio EXCEPT !.seen[fld] = virtio.mine[fld], !.pending = @ \ {fld}]
    /\ UNCHANGED <<KickUnchanged, pc, last>>

\* The device finds avail.index ahead of used.index, takes the head from
\* the ring and the request from the descriptors as it sees them, and
\* completes it.
KickDeviceComplete ==
    /\ virtio.seen.avail_index # virtio.used_index
    /\ last' = [op |-> "device_complete",
                head |-> virtio.seen.ring[virtio.used_index % VIRTQ_ENTRY_NUM],
                descs |-> virtio.seen.descs,
                request |-> virtio.seen.blk_req,
                stale |-> virtio.pending \cap {"ring", "descs", "blk_req"} # {}]
    /\ virtio' = [virtio EXCEPT !.used_index = Inc16(@)]
    /\ UNCHANGED <<KickUnchanged, pc>>

\* while (virtq_is_busy(vq)); ends.
KickPollReturn ==
    /\ pc = "kick_poll"
    /\ ~virtq_is_busy(virtio)
    /\ pc' = "driver"
    /\ last' = [op |-> "read_write_disk"]
    /\ UNCHANGED <<KickUnchanged, virtio>>

NextKick ==
    \/ FillRequest
    \/ KickRing
    \/ KickIndex
    \/ KickSync
    \/ KickNotify
    \/ KickLastSeen
    \/ Propagate
    \/ KickDeviceComplete
    \/ KickPollReturn

SpecKick == InitKick /\ [][NextKick]_vars

\* ------------------------------------------------------------------------
\* The capacity of the block device (virtio_disk.c: init_virtio_blk,
\* read_write_disk). The device reports a 64-bit number of sectors; the
\* driver keeps `unsigned blk_capacity`, 32 bits, here a Word of two 16-bit
\* halves. In this section the variable virtio holds the reported number,
\* blk_capacity, the shared memory of the queue and the notify count.
\* ------------------------------------------------------------------------

\* The numbers of sectors a device reports.
Capacities == {0, 1, BlkSectors, 8388608, 8388608 + BlkSectors}

\* The sectors callers ask for.
CapSectors == {0, 1, BlkSectors - 1, BlkSectors, 8388608 + 1}

\* blk_capacity = virtio_reg_read64(..) * SECTOR_SIZE with the product kept
\* in 64 bits: the halves hold bits 0-15 and 16-31 of it, bits 32 and up are
\* in `top`.
Capacity64(sectors) ==
    [hi |-> (sectors \div 128) % 65536, lo |-> (sectors % 128) * SECTOR_SIZE,
     top |-> sectors \div 8388608]

\* The same product stored in the 32-bit blk_capacity.
Capacity32(sectors) ==
    [hi |-> (sectors \div 128) % 65536, lo |-> (sectors % 128) * SECTOR_SIZE,
     top |-> 0]

\* blk_capacity / SECTOR_SIZE
CapacitySectors(cap) == cap.hi * 128 + cap.lo \div SECTOR_SIZE

InitCap ==
    /\ procs = [i \in Slots |-> UnusedSlot]
    /\ current_proc = NULL
    /\ idle_proc = NULL
    /\ next_paddr = 0
    /\ files = [i \in FileSlots |-> NoFile]
    /\ disk = <<>>
    /\ oob = FALSE
    /\ frame = NoArgs(0)
    /\ csr = [scause |-> 0, sepc |-> Word(0, 0), satp |-> NULL,
              sscratch |-> NoStack, stvec |-> "trampoline"]
    /\ panic = "none"
    /\ last = [op |-> "none"]
    /\ blk = <<>>
    /\ \E c \in Capacities :
          virtio = [reported |-> c, blk_capacity |-> Capacity32(0),
                    mine |-> SharedInit, notified |-> 0,
                    used_index |-> 0, last_seen_used_index |-> 0]
    /\ mem = <<>>
    /\ console = -1
    /\ regs = <<>>
    /\ pc = "boot"

\* init_virtio_blk, step 7.
CapInitVirtioBlk ==
    /\ pc = "boot"
    /\ virtio' = [virtio EXCEPT !.blk_capacity = Capacity32(virtio.reported)]
    /\ pc' = "driver"
    /\ last' = [op |-> "init_virtio_blk"]
    /\ UNCHANGED KickUnchanged

\* read_write_disk(buf, sector, is_write) as one step, with a device that
\* completes the request with status 0.
CapReadWriteDisk ==
    /\ pc = "driver"
    /\ virtio.mine.avail_index < MaxRequests
    /\ \E sector \in CapSectors, is_write \in BOOLEAN, buf \in KickBufs :
          IF sector >= CapacitySectors(virtio.blk_capacity)
          THEN /\ last' = [op |-> "read_write_disk", submitted |-> FALSE,
                           sector |-> sector, is_write |-> is_write,
                           buf |-> buf, buf_after |-> buf]
               /\ UNCHANGED virtio
          ELSE /\ virtio' =
                    [virtio EXCEPT
                       !.mine.blk_req =
                           [type |-> IF is_write THEN VIRTIO_BLK_T_OUT ELSE VIRTIO_BLK_T_IN,
                            sector |-> sector,
                            data |-> IF is_write THEN SubSeq(buf, 1, SECTOR_SIZE)
                                                 ELSE SectorData],
                       !.mine.descs = Descs(is_write),
                       !.mine.ring[virtio.mine.avail_index % VIRTQ_ENTRY_NUM] = 0,
                       !.mine.avail_index = Inc16(@),
                       !.notified = @ + 1,
                       !.last_seen_used_index = Inc16(@),
                       !.used_index = Inc16(@)]
               /\ last' = [op |-> "read_write_disk", submitted |-> TRUE,
                           sector |-> sector, is_write |-> is_write,
                           buf |-> buf,
                           buf_after |-> IF is_write THEN buf ELSE SectorData]
    /\ UNCHANGED <<KickUnchanged, pc>>

NextCap == CapInitVirtioBlk \/ CapReadWriteDisk

SpecCap == InitCap /\ [][NextCap]_vars

\* ------------------------------------------------------------------------
\* The initialization of the block device (virtio_disk.c: init_virtio_blk,
\* virtq_init), one register access at a time. In this section the variable
\* virtio holds the device's identification registers, its status register,
\* the register writes made so far (`writes`), the number of alloc_pages
\* calls (`allocs`) and the position in init_virtio_blk (`step`).
\* ------------------------------------------------------------------------
VIRTIO_MAGIC == 1953655158

VIRTIO_DEVICE_BLK == 2

VIRTIO_REG_QUEUE_SEL == 48

VIRTIO_REG_QUEUE_NUM == 56

VIRTIO_REG_QUEUE_ALIGN == 60

VIRTIO_REG_QUEUE_PFN == 64

VIRTIO_REG_QUEUE_NOTIFY == 80

VIRTIO_REG_DEVICE_STATUS == 112

VIRTIO_STATUS_RESET == 0

VIRTIO_STATUS_ACK == 1

VIRTIO_STATUS_DRIVER == 2

VIRTIO_STATUS_DRIVER_OK == 4

VIRTIO_STATUS_FEAT_OK == 8

\* a | b
RECURSIVE BitOr(_, _)
BitOr(a, b) ==
    IF a = 0 THEN b
    ELSE IF b = 0 THEN a
    ELSE (IF a % 2 = 1 \/ b % 2 = 1 THEN 1 ELSE 0) + 2 * BitOr(a \div 2, b \div 2)

\* The 32-bit byte address of a page of the free RAM, as a Word.
PageAddress(page) == Word(page \div 16, (page % 16) * PAGE_SIZE)

\* What the device's registers can hold when the kernel starts.
BlkMagics == {VIRTIO_MAGIC, 0}

BlkVersions == {1, 2}

BlkDeviceIds == {VIRTIO_DEVICE_BLK, 1}

BlkStatuses == {0, 15, 64}

\* The statements of init_virtio_blk after the three checks, with those of
\* virtq_init in place of its call: register writes, fetch-and-or's of the
\* status register, and the allocation of the virtqueue.
InitProgramDriverOkFirst ==
    << [op |-> "write", reg |-> VIRTIO_REG_DEVICE_STATUS, value |-> VIRTIO_STATUS_RESET],
       [op |-> "or", reg |-> VIRTIO_REG_DEVICE_STATUS, value |-> VIRTIO_STATUS_ACK],
       [op |-> "or", reg |-> VIRTIO_REG_DEVICE_STATUS, value |-> VIRTIO_STATUS_DRIVER],
       [op |-> "or", reg |-> VIRTIO_REG_DEVICE_STATUS, value |-> VIRTIO_STATUS_FEAT_OK],
       [op |-> "write", reg |-> VIRTIO_REG_DEVICE_STATUS, value |-> VIRTIO_STATUS_DRIVER_OK],
       [op |-> "alloc", reg |-> 0, value |-> VirtqPages],
       [op |-> "write", reg |-> VIRTIO_REG_QUEUE_SEL, value |-> 0],
       [op |-> "write", reg |-> VIRTIO_REG_QUEUE_NUM, value |-> VIRTQ_ENTRY_NUM],
       [op |-> "write", reg |-> VIRTIO_REG_QUEUE_ALIGN, value |-> 0],
       [op |-> "write_paddr", reg |-> VIRTIO_REG_QUEUE_PFN, value |-> 0],
       [op |-> "read_capacity", reg |-> 0, value |-> 0],
       [op |-> "alloc", reg |-> 0, value |-> BlkReqPages] >>

InitProgram ==
    << [op |-> "write", reg |-> VIRTIO_REG_DEVICE_STATUS, value |-> VIRTIO_STATUS_RESET],
       [op |-> "or", reg |-> VIRTIO_REG_DEVICE_STATUS, value |-> VIRTIO_STATUS_ACK],
       [op |-> "or", reg |-> VIRTIO_REG_DEVICE_STATUS, value |-> VIRTIO_STATUS_DRIVER],
       [op |-> "or", reg |-> VIRTIO_REG_DEVICE_STATUS, value |-> VIRTIO_STATUS_FEAT_OK],
       [op |-> "alloc", reg |-> 0, value |-> VirtqPages],
       [op |-> "write", reg |-> VIRTIO_REG_QUEUE_SEL, value |-> 0],
       [op |-> "write", reg |-> VIRTIO_REG_QUEUE_NUM, value |-> VIRTQ_ENTRY_NUM],
       [op |-> "write", reg |-> VIRTIO_REG_QUEUE_ALIGN, value |-> 0],
       [op |-> "write_paddr", reg |-> VIRTIO_REG_QUEUE_PFN, value |-> 0],
       [op |-> "write", reg |-> VIRTIO_REG_DEVICE_STATUS, value |-> VIRTIO_STATUS_DRIVER_OK],
       [op |-> "read_capacity", reg |-> 0, value |-> 0],
       [op |-> "alloc", reg |-> 0, value |-> BlkReqPages] >>

InitBlk ==
    /\ procs = [i \in Slots |-> UnusedSlot]
    /\ current_proc = NULL
    /\ idle_proc = NULL
    /\ next_paddr = 0
    /\ files = [i \in FileSlots |-> NoFile]
    /\ disk = <<>>
    /\ oob = FALSE
    /\ frame = NoArgs(0)
    /\ csr = [scause |-> 0, sepc |-> Word(0, 0), satp |-> NULL,
              sscratch |-> NoStack, stvec |-> "trampoline"]
    /\ panic = "none"
    /\ last = [op |-> "none"]
    /\ blk = <<>>
    /\ \E m \in BlkMagics, v \in BlkVersions, d \in BlkDeviceIds, st \in BlkStatuses,
          c \in Capacities :
          virtio = [magic |-> m, version |-> v, device_id |-> d, status |-> st,
                    reported |-> c, blk_capacity |-> Capacity32(0),
                    writes |-> <<>>, allocs |-> 0, step |-> 1, virtq_paddr |-> NULL,
                    requests |-> 0]
    /\ mem = <<>>
    /\ console = -1
    /\ regs = <<>>
    /\ pc = "init_virtio_blk"

BlkUnchanged == <<procs, current_proc, idle_proc, fsvars, frame, csr, mem, console, regs>>

\* The three checks: PANIC on the first that fails.
BlkCheck ==
    /\ pc = "init_virtio_blk"
    /\ panic' = IF virtio.magic # VIRTIO_MAGIC THEN "virtio: invalid magic value"
                ELSE IF virtio.version # 1 THEN "virtio: invalid version"
                ELSE IF virtio.device_id # VIRTIO_DEVICE_BLK THEN "virtio: invalid device id"
                ELSE "none"
    /\ pc' = IF panic' = "none" THEN "blk_init" ELSE "panic"
    /\ last' = [op |-> "blk_check"]
    /\ UNCHANGED <<BlkUnchanged, virtio, next_paddr>>

BlkAtStep(op) ==
    /\ pc = "blk_init"
    /\ virtio.step <= Len(InitProgram)
    /\ InitProgram[virtio.step].op = op

BlkNextPc == IF virtio.step = Len(InitProgram) THEN "blk_ready" ELSE "blk_init"

\* virtio_reg_write32(reg, value)
BlkRegWrite ==
    /\ BlkAtStep("write")
    /\ LET i == InitProgram[virtio.step]
       IN  virtio' = [virtio EXCEPT
                        !.writes = Append(@, [reg |-> i.reg, value |-> Word(0, i.value)]),
                        !.status = IF i.reg = VIRTIO_REG_DEVICE_STATUS THEN i.value ELSE @,
                        !.step = @ + 1]
    /\ pc' = BlkNextPc
    /\ last' = [op |-> "reg_write"]
    /\ UNCHANGED <<BlkUnchanged, panic, next_paddr>>

\* virtio_reg_write32(VIRTIO_REG_QUEUE_PFN, virtq_paddr)
BlkRegWritePaddr ==
    /\ BlkAtStep("write_paddr")
    /\ LET i == InitProgram[virtio.step]
       IN  virtio' = [virtio EXCEPT
                        !.writes = Append(@, [reg |-> i.reg,
                                              value |-> PageAddress(virtio.virtq_paddr)]),
                        !.step = @ + 1]
    /\ pc' = BlkNextPc
    /\ last' = [op |-> "reg_write"]
    /\ UNCHANGED <<BlkUnchanged, panic, next_paddr>>

\* virtio_reg_fetch_and_or32(reg, value)
BlkRegFetchOr ==
    /\ BlkAtStep("or")
    /\ LET i == InitProgram[virtio.step]
           v == BitOr(virtio.status, i.value)
       IN  virtio' = [virtio EXCEPT
                        !.writes = Append(@, [reg |-> i.reg, value |-> Word(0, v)]),
                        !.status = v,
                        !.step = @ + 1]
    /\ pc' = BlkNextPc
    /\ last' = [op |-> "reg_fetch_and_or"]
    /\ UNCHANGED <<BlkUnchanged, panic, next_paddr>>

\* blk_capacity = virtio_reg_read64(VIRTIO_REG_DEVICE_CONFIG + 0) * SECTOR_SIZE;
BlkReadCapacity ==
    /\ BlkAtStep("read_capacity")
    /\ virtio' = [virtio EXCEPT !.blk_capacity = Capacity32(virtio.reported),
                                !.step = @ + 1]
    /\ pc' = BlkNextPc
    /\ last' = [op |-> "read_capacity"]
    /\ UNCHANGED <<BlkUnchanged, panic, next_paddr>>

\* alloc_pages for the virtqueue (virtq_init) and for the request record.
BlkAlloc ==
    /\ BlkAtStep("alloc")
    /\ \E r \in {alloc_pages(next_paddr, InitProgram[virtio.step].value)} :
          /\ next_paddr' = r.next_paddr
          /\ panic' = r.panic
          /\ pc' = IF r.panic # "none" THEN "panic" ELSE BlkNextPc
          /\ virtio' = [virtio EXCEPT
                          !.allocs = @ + 1,
                          !.virtq_paddr = IF @ = NULL THEN FreeRamPage + r.paddr ELSE @,
                          !.step = @ + 1]
    /\ last' = [op |-> "alloc_pages"]
    /\ UNCHANGED BlkUnchanged

\* A request after init_virtio_blk has returned (init_fs and flush_fs are
\* the callers): virtq_kick's write of the notify register.
BlkRequest ==
    /\ pc = "blk_ready"
    /\ virtio.requests < MaxRequests
    /\ \E sector \in {0, BlkSectors - 1}, is_write \in BOOLEAN :
          last' = [op |-> "read_write_disk", sector |-> sector, is_write |-> is_write]
    /\ virtio' = [virtio EXCEPT
                    !.writes = Append(@, [reg |-> VIRTIO_REG_QUEUE_NOTIFY,
                                          value |-> Word(0, 0)]),
                    !.requests = @ + 1]
    /\ UNCHANGED <<BlkUnchanged, panic, next_paddr, pc>>

NextBlk ==
    \/ BlkCheck
    \/ BlkRegWrite
    \/ BlkRegWritePaddr
    \/ BlkRegFetchOr
    \/ BlkReadCapacity
    \/ BlkAlloc
    \/ BlkRequest

SpecBlk == InitBlk /\ [][NextBlk]_vars

\* ------------------------------------------------------------------------
\* The cold start (kernel.c: kernel_main, init_boot, init_bss,
\* init_trap_handler): the machine as the boot code finds it, with a .bss
\* that holds what the last run left, then init_boot's calls in the order
\* of the code and the kernel as built.
\* ------------------------------------------------------------------------

\* A process slot and a file slot as a run before the restart may have left
\* them in the .bss.
StaleSlot ==
    [pid |-> 4, state |-> PROC_RUNNABLE, sp |-> "user_entry",
     page_table |-> [root |-> NULL, maps |-> <<>>]]

StaleFile == [in_use |-> TRUE, name |-> <<122>>, data |-> <<7, 7>>, size |-> 2]

InitCold ==
    /\ procs \in {[i \in Slots |-> UnusedSlot],
                  [i \in Slots |-> IF i = 3 THEN StaleSlot ELSE UnusedSlot]}
    /\ current_proc \in {NULL, 3}
    /\ idle_proc \in {NULL, 3}
    /\ next_paddr = 0
    /\ files \in {[i \in FileSlots |-> NoFile],
                  [i \in FileSlots |-> IF i = 1 THEN StaleFile ELSE NoFile]}
    /\ disk = <<>>
    /\ oob = FALSE
    /\ frame = NoArgs(0)
    /\ csr = [scause |-> 0, sepc |-> Word(0, 0), satp |-> NULL,
              sscratch |-> NoStack, stvec |-> "firmware"]
    /\ virtio = virtq_init
    /\ mem = <<>>
    /\ console = -1
    /\ regs = <<>>
    /\ pc = "init_bss"
    /\ panic = "none"
    /\ last = [op |-> "none"]
    /\ blk \in Images

\* The call that follows `step` in init_boot, for the three calls before
\* init_idle_process.
BootAfterNoDevice(step) ==
    CASE step = "init_bss" -> "init_trap_handler"
      [] step = "init_trap_handler" -> "init_idle_process"
      [] step = "init_virtio_blk" -> "init_idle_process"

BootAfter(step) ==
    CASE step = "init_bss" -> "init_trap_handler"
      [] step = "init_trap_handler" -> "init_virtio_blk"
      [] step = "init_virtio_blk" -> "init_idle_process"

\* init_bss: memset(__bss, 0, __bss_end - __bss); procs[], both process
\* pointers, files[] and disk[] lie in the .bss.
InitBss ==
    /\ pc = "init_bss"
    /\ procs' = [i \in Slots |-> UnusedSlot]
    /\ current_proc' = NULL
    /\ idle_proc' = NULL
    /\ files' = [i \in FileSlots |-> NoFile]
    /\ disk' = <<>>
    /\ pc' = BootAfter(pc)
    /\ last' = [op |-> "init_bss"]
    /\ UNCHANGED <<next_paddr, blk, oob, frame, csr, hwvars, panic>>

\* init_trap_handler: WRITE_CSR(stvec, trampoline).
InitTrapHandler ==
    /\ pc = "init_trap_handler"
    /\ csr' = [csr EXCEPT !.stvec = "trampoline"]
    /\ pc' = BootAfter(pc)
    /\ last' = [op |-> "init_trap_handler"]
    /\ UNCHANGED <<procvars, fsvars, frame, hwvars, panic>>

\* init_virtio_blk on the block device of the machine: the checks pass, the
\* virtqueue and the request record are allocated.
InitVirtioBlk ==
    /\ pc = "init_virtio_blk"
    /\ \E q \in {alloc_pages(next_paddr, VirtqPages)} :
          \E r \in {alloc_pages(q.next_paddr, BlkReqPages)} :
              next_paddr' = r.next_paddr
    /\ virtio' = virtq_init
    /\ pc' = BootAfter(pc)
    /\ last' = [op |-> "init_virtio_blk"]
    /\ UNCHANGED <<procs, current_proc, idle_proc, fsvars, frame, csr, mem, console, regs,
                   panic>>

NextBoot ==
    \/ InitBss
    \/ InitTrapHandler
    \/ InitVirtioBlk
    \/ Next

SpecBoot == InitCold /\ [][NextBoot]_vars

\* ------------------------------------------------------------------------
\* Properties
\* ------------------------------------------------------------------------
CreateOps == {"init_idle_process", "init_user", "create_process"}

\* C1: a slot's state changes only UNUSED -> RUNNABLE in a create_process
\* call or RUNNABLE -> EXITED in the SYS_EXIT handler of the process that
\* is current; so nothing returns to UNUSED, EXITED stays EXITED, and
\* create_process never picks an EXITED slot.
C1_StateTransitions ==
    [][\A i \in Slots :
          /\ procs'[i].state # procs[i].state =>
                \/ /\ procs[i].state = PROC_UNUSED
                   /\ procs'[i].state = PROC_RUNNABLE
                   /\ last'.op \in CreateOps
                   /\ last'.proc = i
                \/ /\ procs[i].state = PROC_RUNNABLE
                   /\ procs'[i].state = PROC_EXITED
                   /\ last'.op = "exit"
                   /\ current_proc = i
          /\ (procs[i].state = PROC_EXITED /\ last'.op \in CreateOps) =>
                (last'.proc # i /\ procs'[i] = procs[i])]_vars

\* A create_process call succeeded while some slot was EXITED.
C1_Witness ==
    /\ last.op = "create_process"
    /\ last.proc # NULL
    /\ \E i \in Slots : procs[i].state = PROC_EXITED

\* C2: a process that has executed SYS_EXIT is not selected by the yield of
\* its EXIT handler nor by any later yield, never becomes current_proc
\* again and never runs user code; PANIC("unreachable") is never executed.
C2_ExitedNeverRuns ==
    [][/\ panic' # "unreachable"
       /\ (last'.op = "exit" => last'.next # last'.proc)
       /\ \A i \in Slots :
             procs[i].state = PROC_EXITED =>
                /\ (last'.op \in YieldOps => last'.next # i)
                /\ (current_proc' = i => current_proc = i)
       /\ pc' = "user" =>
             (current_proc' # NULL /\ procs'[current_proc'].state = PROC_RUNNABLE)]_vars

\* A yield after some process exited switched to another process.
C2_Witness ==
    /\ last.op = "yield"
    /\ last.next # last.proc
    /\ pc = "user"
    /\ \E i \in Slots : procs[i].state = PROC_EXITED

\* C3: after the boot that created the idle process and one user process,
\* SYS_EXIT of the user process leaves the kernel parked in the idle
\* process: no PANIC, no crash, current_proc a valid process.
C3_QuiescentAfterExit ==
    last.op = "exit" =>
        /\ pc \notin {"panic", "crash"}
        /\ current_proc # NULL
        /\ last.next # NULL

\* The control block init_idle_process created: the slot with pid 0 that
\* is not UNUSED.
IdleBlock == CHOOSE i \in Slots : procs[i].pid = 0 /\ procs[i].state # PROC_UNUSED

\* C4: when yield finds no RUNNABLE slot with pid > 0, the process it
\* selects is the control block init_idle_process created.
C4_IdleSelected ==
    (/\ last.op \in YieldOps
     /\ \A i \in Slots : ~(procs[i].state = PROC_RUNNABLE /\ procs[i].pid > 0))
        => last.next = IdleBlock

\* C5: yield selects the first slot, in the order one past the current
\* process' slot, ..., the current process' slot, that is RUNNABLE with
\* pid > 0.
C5_RoundRobin ==
    last.op \in YieldOps =>
        LET order == [k \in 0 .. (PROCS_MAX - 1) |-> (last.proc + 1 + k) % PROCS_MAX]
            hits == {k \in 0 .. (PROCS_MAX - 1) :
                        /\ procs[order[k]].state = PROC_RUNNABLE
                        /\ procs[order[k]].pid > 0}
        IN  hits # {} => last.next = order[Min(hits)]

\* A yield passed over the slot after the current one and switched to a
\* later one.
C5_Witness ==
    /\ last.op = "yield"
    /\ last.next \notin {NULL, last.proc, (last.proc + 1) % PROCS_MAX}
    /\ pc = "user"

\* C6: create_process takes the lowest UNUSED slot, makes it RUNNABLE with
\* pid = index + 1 (init_idle_process then sets pid 0) and touches no other
\* slot; with no UNUSED slot it PANICs, no slot modified, no frame
\* allocated.
C6_CreateProcess ==
    [][last'.op \in CreateOps =>
          LET free == {i \in Slots : procs[i].state = PROC_UNUSED}
          IN  IF free = {}
              THEN /\ pc' = "panic"
                   /\ panic' = "no free process slots"
                   /\ procs' = procs
                   /\ next_paddr' = next_paddr
              ELSE pc' # "panic" =>
                      /\ last'.proc = Min(free)
                      /\ procs'[Min(free)].state = PROC_RUNNABLE
                      /\ procs'[Min(free)].pid =
                            (IF last'.op = "init_idle_process" THEN 0 ELSE Min(free) + 1)
                      /\ \A j \in Slots \ {Min(free)} : procs'[j] = procs[j]]_vars

\* The creation after the eighth: every slot taken, the kernel halted.
C6_Witness ==
    /\ last.op = "create_process"
    /\ panic = "no free process slots"
    /\ \A i \in Slots : procs[i].state # PROC_UNUSED

\* Some in-use file has the name.
NamedInUse(name) ==
    \E i \in FileSlots : files[i].in_use /\ StrEq(CStr(files[i].name, 0), name)

\* C7: READFILE and WRITEFILE on a name that no in-use file has return -1,
\* leave files[] and disk[] as they were and submit no block request.
C7_AbsentName ==
    [][(/\ last'.op \in {"readfile", "writefile"}
        /\ ~NamedInUse(UserStrings[frame.a0]))
          => /\ frame'.a0 = -1
             /\ files' = files
             /\ disk' = disk
             /\ blk' = blk
             /\ last'.nreq = 0]_vars

\* C8: READFILE of an in-use file with len >= 0 copies and returns
\* min(len, file.size) bytes.
C8_ReadCapped ==
    [][(/\ last'.op = "readfile"
        /\ last'.file # NULL
        /\ files[last'.file].in_use
        /\ frame.a2 >= 0)
          => LET n == Min2(frame.a2, files[last'.file].size)
             IN  /\ frame'.a0 = n
                 /\ last'.buf = Bytes(files[last'.file].data, 0, n)]_vars

\* C9: WRITEFILE on a file that fs_lookup finds, with len >= 0, copies
\* n = min(len, 1024) bytes of the buffer to the start of file->data and
\* no more, sets file->size to n and returns n.
C9_WriteCapped ==
    [][(/\ last'.op = "writefile"
        /\ last'.file # NULL
        /\ frame.a2 >= 0)
          => LET i == last'.file
                 n == Min2(frame.a2, DataSize)
             IN  /\ pc' = "sret"
                 /\ frame'.a0 = n
                 /\ files'[i].size = n
                 /\ Bytes(files'[i].data, 0, n) = Bytes(UserBufs[frame.a1], 0, n)
                 /\ Bytes(files'[i].data, n, DataSize - n) = Bytes(files[i].data, n, DataSize - n)
                 /\ Len(files'[i].data) <= DataSize]_vars

\* C10: every in-use file slot has 0 <= size <= 1024.
C10_SizeInRange ==
    \A i \in FileSlots : files[i].in_use => (0 <= files[i].size /\ files[i].size <= DataSize)

\* The (name, size, data[0..size)) tuples of the in-use slots of table fl,
\* in slot order.
FileTuples(fl) ==
    LET slots == SelectSeq([k \in 1 .. FILES_MAX |-> k - 1], LAMBDA i : fl[i].in_use)
    IN  [k \in 1 .. Len(slots) |->
            <<CStr(fl[slots[k]].name, 0), fl[slots[k]].size,
              Bytes(fl[slots[k]].data, 0, fl[slots[k]].size)>>]

\* C11: flush_fs, then init_fs on the sectors written, gives back the same
\* (name, size, data[0..size)) tuples in the same order.
C11_RoundTrip ==
    last.op = "reboot_init_fs" => FileTuples(files) = FileTuples(last.before)

\* What READFILE(name, len) copies out after a restart of the machine
\* with the device holding dev: init_fs on the zeroed table, then the
\* handler's lookup, cap and copy.
ReadAfterRestart(dev, name, len) ==
    LET fl == init_fs([i \in FileSlots |-> NoFile], <<>>, dev, blk_capacity).files
        j == fs_lookup(fl, name)
    IN  IF j = NULL THEN [a0 |-> -1, buf |-> <<>>]
        ELSE LET n == file_len(SYS_READFILE, len, fl[j].size)
             IN  [a0 |-> n, buf |-> Bytes(fl[j].data, 0, n)]

\* C12: a WRITEFILE of len >= 0 bytes to an in-use file returns to user
\* mode, by then one request per sector of disk[] has been made, and after
\* a restart READFILE of the same name and length gives the bytes written.
C12_Durable ==
    [][(/\ last'.op = "writefile"
        /\ last'.file # NULL
        /\ files[last'.file].in_use
        /\ frame.a2 >= 0)
          => LET n == Min2(frame.a2, DataSize)
             IN  /\ pc' = "sret"
                 /\ last'.nreq = DiskSectors
                 /\ ReadAfterRestart(blk', UserStrings[frame.a0], n)
                        = [a0 |-> n, buf |-> Bytes(UserBufs[frame.a1], 0, n)]]_vars

SyscallOps == {"putchar", "getchar", "exit", "readfile", "writefile", "shutdown", "unknown"}

\* C13: a trap with scause = 8 goes to the syscall layer, which leaves sepc
\* alone, and when that returns sepc is written once with the sepc of the
\* trap entry plus 4 (32-bit); a trap with any other scause ends in the
\* PANIC of handle_trap, after which the kernel takes no step.
C13_TrapDispatch ==
    [][/\ (pc = "trap" /\ csr.scause = SCAUSE_ECALL)
            => (last'.op \in SyscallOps /\ (pc' = "sret" => csr' = csr))
       /\ pc = "sret"
            => (last'.op = "sret" /\ pc' = "user" /\ csr'.sepc = AddWord(csr.sepc, 4))
       /\ (pc = "trap" /\ csr.scause # SCAUSE_ECALL)
            => (last'.op = "trap_panic" /\ pc' = "panic" /\ csr' = csr)
       /\ pc # "panic"
       /\ (csr'.sepc # csr.sepc /\ pc \notin {"user", "sret"})
            => (pc' = "user" /\ csr'.sepc = USER_BASE)]_vars

C13_Witness ==
    /\ last.op = "sret"
    /\ pc = "user"
    /\ csr.scause = SCAUSE_ECALL
    /\ csr.sepc = AddWord(USER_BASE, 68)

\* C14: whenever current_proc is the idle process (the control block with
\* pid 0 that init_idle_process created), no slot is RUNNABLE with pid > 0.
C14_IdleCurrentNoRunnable ==
    (/\ current_proc # NULL
     /\ procs[current_proc].pid = 0
     /\ procs[current_proc].state # PROC_UNUSED)
        => \A i \in Slots : ~(procs[i].state = PROC_RUNNABLE /\ procs[i].pid > 0)

\* C15: at most one descriptor chain is outstanding: avail.index -
\* used.index (mod 2^16) is 0 or 1 at every point and 0 outside a
\* read_write_disk call; when read_write_disk returns after submitting a
\* request, used.index = avail.index = last_seen_used_index.
C15_VirtqIndexes ==
    /\ (virtio.avail_index - virtio.used_index) % 65536 \in {0, 1}
    /\ pc = "driver" => virtio.avail_index = virtio.used_index
    /\ (pc = "driver" /\ last.op = "read_write_disk" /\ last.submitted)
          => /\ virtio.used_index = virtio.avail_index
             /\ virtio.last_seen_used_index = virtio.avail_index

C15_Witness ==
    /\ pc = "driver"
    /\ last.op = "read_write_disk"
    /\ last.submitted
    /\ virtio.avail_index = 0

\* C16: when create_process has returned, the page table of the new process
\* maps the device's register page to itself with R and W.
C16_MmioMapped ==
    (last.op \in CreateOps /\ last.proc # NULL)
        => LET t == Translate(procs[last.proc].page_table.maps, VirtioPage)
           IN  /\ t.ppn = VirtioPage
               /\ {"V", "R", "W"} \subseteq t.flags

OtherRunnable ==
    \E i \in Slots : i # current_proc /\ procs[i].state = PROC_RUNNABLE /\ procs[i].pid > 0

\* C17 as stated: a yield that directly follows a yield, with no change of
\* any process state in between, leaves current_proc as the first yield
\* set it.
C17_YieldIdempotent ==
    [][(last.op \in YieldOps /\ last'.op = "yield") => current_proc' = current_proc]_vars

\* C17 amended: a yield that directly follows a yield leaves current_proc
\* as it is when no other slot is RUNNABLE with pid > 0, and moves it to
\* another process when there is one.
C17_YieldIdempotentAlone ==
    [][(last.op \in YieldOps /\ last'.op = "yield")
          => (current_proc' = current_proc <=> ~OtherRunnable)]_vars

C17_Witness ==
    /\ last.op = "yield"
    /\ last.again
    /\ last.proc = current_proc
    /\ last.next = current_proc
    /\ ~OtherRunnable
    /\ \E i \in Slots : procs[i].state = PROC_EXITED

\* C18 as stated: after any sequence of map_page calls on a root table, the
\* walk of each virtual page ends at a level-0 leaf with the physical page
\* and the flags | V of the latest call that mapped the page.
C18_MapPageWalk ==
    pc = "map_page" =>
        \A c \in last.mapped :
            Walk(mem, 0, c.vaddr) =
                [level |-> 0, page |-> c.paddr.page, flags |-> OrValid(c.flags)]

\* The flags that make an entry a leaf: R or X, and W only with R.
LeafFlags(flags) == IsLeaf(flags) /\ ~Reserved(flags)

\* C18, as the code has it: the walk ends at that level-0 leaf for each
\* virtual page whose latest call passed flags with R or X (W only with R);
\* a page whose latest call passed other flags, or that no call mapped,
\* does not translate, whatever was mapped around it.
C18_MapPageWalkLeaf ==
    pc = "map_page" =>
        /\ \A c \in last.mapped :
              Walk(mem, 0, c.vaddr) =
                  IF LeafFlags(c.flags)
                  THEN [level |-> 0, page |-> c.paddr.page, flags |-> OrValid(c.flags)]
                  ELSE [level |-> -1, page |-> 0, flags |-> 0]
        /\ \A a \in VmVaddrs :
              (\A c \in last.mapped : c.vaddr # a) => Walk(mem, 0, a).level = -1

C18_Witness ==
    /\ pc = "map_page"
    /\ last.op = "map_page"
    /\ Cardinality(last.mapped) = Cardinality(VmVaddrs)
    /\ Len(mem) = 4
    /\ \A c \in last.mapped : LeafFlags(c.flags)
    /\ \E c \in last.mapped : c.vaddr = Addr(VirtioPage, 0) /\ c.paddr = Addr(VirtioPage, 0)

\* C19: alloc_pages(n) ends in PANIC whenever the n pages asked for, from
\* the cursor, go past __free_ram_end, and otherwise returns the old cursor
\* with the n pages inside the free RAM, zero-filled and apart from every
\* frame returned earlier.
C19_AllocPages ==
    (last.op = "alloc_pages" /\ pc \in {"caller", "panic"}) =>
        IF last.cursor + last.n > FreeRamPages
        THEN pc = "panic" /\ panic = "out of memory"
        ELSE /\ pc = "caller"
             /\ last.paddr = last.cursor
             /\ \A f \in last.paddr .. (last.paddr + last.n - 1) :
                   /\ f \in 0 .. (FreeRamPages - 1)
                   /\ mem[f + 1] = ZeroTable
                   /\ f \notin last.returned

\* What a process switch changes: the current process, the page table the
\* hart translates with and the saved stack pointers.
SwitchState == <<current_proc, csr.satp, [i \in Slots |-> procs[i].sp]>>

\* The calls of yield in the kernel as built: kernel_main's at the end of
\* boot and the one of the SYS_EXIT handler.
YieldCall ==
    /\ last'.op \in {"kernel_main_yield", "exit"}
    /\ \/ pc = "yield"
       \/ pc = "trap" /\ csr.scause = SCAUSE_ECALL /\ frame.a3 = SYS_EXIT

KernelState == <<procs, current_proc, idle_proc, next_paddr, files, disk, blk, oob,
                 frame, csr, virtio, mem, panic>>

FirstRunnableFrom(start) ==
    LET hits == {k \in 0 .. (PROCS_MAX - 1) :
                    /\ procs[(start + k) % PROCS_MAX].state = PROC_RUNNABLE
                    /\ procs[(start + k) % PROCS_MAX].pid > 0}
    IN  IF hits = {} THEN NULL ELSE (start + Min(hits)) % PROCS_MAX

\* C22 as stated: yield selects the first slot that is RUNNABLE with
\* pid > 0 in the scan of PROCS_MAX slots that starts at slot index
\* (current.pid + 1) mod PROCS_MAX.
C22_ScanFromPidPlusOne ==
    (last.op \in YieldOps /\ FirstRunnableFrom(0) # NULL) =>
        last.next = FirstRunnableFrom((procs[last.proc].pid + 1) % PROCS_MAX)

\* C22, as the code has it: the scan of PROCS_MAX slots starts at slot
\* index current.pid mod PROCS_MAX, which is the slot after the current
\* one for a process with pid = index + 1 and slot 0 for the idle process.
C22_ScanFromPid ==
    (last.op \in YieldOps /\ FirstRunnableFrom(0) # NULL) =>
        last.next = FirstRunnableFrom(procs[last.proc].pid % PROCS_MAX)

\* A yield took the slot at index current.pid while the slot after that one
\* was RUNNABLE too.
C22_Witness ==
    /\ last.op = "yield"
    /\ last.proc # NULL
    /\ last.next = procs[last.proc].pid % PROCS_MAX
    /\ last.next # last.proc
    /\ procs[(last.next + 1) % PROCS_MAX].state = PROC_RUNNABLE
    /\ procs[(last.next + 1) % PROCS_MAX].pid > 0

SwitchPcs == {"sfence_vma_1", "csrw_satp", "sfence_vma_2", "csrw_sscratch", "switch_context"}

\* C23: a yield that switches to another process executes, in this order
\* and with no other step of the kernel in between, sfence.vma, the write
\* of satp with the Sv32 mode bit and the page number of the incoming
\* process's root table, sfence.vma, the write of sscratch with the top of
\* the incoming process's supervisor stack, and the context switch; satp is
\* written in no other place, so never without a flush before and after.
C23_SwitchOrder ==
    /\ [](((last.op \in {"kernel_main_yield", "exit"}) /\ last.next \notin {NULL, last.proc})
            => /\ last.trace =
                    << [insn |-> "sfence.vma"],
                       [insn |-> "csrw satp",
                        value |-> [mode |-> 1,
                                   ppn |-> FreeRamPage + procs[last.next].page_table.root]],
                       [insn |-> "sfence.vma"],
                       [insn |-> "csrw sscratch",
                        value |-> [slot |-> last.next, off |-> KernelStackSize]],
                       [insn |-> "switch_context"] >>
               /\ current_proc = last.next
               /\ csr.satp = procs[last.next].page_table.root
               /\ csr.sscratch = [slot |-> last.next, off |-> KernelStackSize])
    /\ [][/\ pc \in SwitchPcs
               => /\ Len(last'.trace) = Len(last.trace) + 1
                  /\ SubSeq(last'.trace, 1, Len(last.trace)) = last.trace
                  /\ last'.next = last.next
          /\ csr'.satp # csr.satp
               => /\ pc \in SwitchPcs
                  /\ last.trace = << [insn |-> "sfence.vma"] >>
                  /\ pc' = "sfence_vma_2"
          /\ (current_proc' # current_proc /\ current_proc' # NULL)
               => \/ last'.op = "init_idle_process"
                  \/ pc = "switch_context" /\ Len(last.trace) = 4]_vars

\* An EXIT's yield has switched from one user process to the next.
C23_Witness ==
    /\ last.op = "exit"
    /\ last.proc # NULL
    /\ last.next \notin {NULL, last.proc}
    /\ Len(last.trace) = 5
    /\ pc = "user"
    /\ procs[last.proc].state = PROC_EXITED
    /\ procs[last.proc].sp = "sys_exit"

\* C24: a yield whose selection is the current process returns without
\* switching: satp, sscratch, current_proc and every slot's saved sp and
\* state stay as they are.
C24_YieldToSelf ==
    [][(last'.op \in YieldOps /\ last'.next = current_proc)
          => /\ csr'.satp = csr.satp
             /\ csr'.sscratch = csr.sscratch
             /\ current_proc' = current_proc
             /\ \A i \in Slots : /\ procs'[i].sp = procs[i].sp
                                 /\ procs'[i].state = procs[i].state]_vars

\* The running process yielded with another process EXITED and none
\* RUNNABLE but itself, and goes on in user mode.
C24_Witness ==
    /\ last.op = "yield"
    /\ last.next = last.proc
    /\ current_proc = last.proc
    /\ pc = "user"
    /\ procs[current_proc].sp = "user_entry"
    /\ csr.sscratch = StackTop(current_proc)
    /\ csr.satp = procs[current_proc].page_table.root
    /\ \E i \in Slots : i # current_proc /\ procs[i].state = PROC_EXITED

\* C25: while a process runs in user mode, at the entry of each trap and
\* when the trap returns, sscratch holds the top of the current process's
\* supervisor stack, satp names its root page table and current_proc is
\* that process, a RUNNABLE one.
C25_UserContext ==
    pc \in {"user", "trap", "sret"} =>
        /\ current_proc # NULL
        /\ procs[current_proc].state = PROC_RUNNABLE
        /\ csr.sscratch = [slot |-> current_proc, off |-> KernelStackSize]
        /\ csr.satp = procs[current_proc].page_table.root

\* A second process, switched to by the first one's yield, is back in user
\* mode after a trap.
C25_Witness ==
    /\ pc = "user"
    /\ last.op = "sret"
    /\ current_proc # NULL
    /\ procs[current_proc].pid > 2
    /\ csr.sscratch = StackTop(current_proc)
    /\ \E i \in Slots : i # current_proc /\ procs[i].sp = "yield_op"

\* C26: a syscall that returns to user mode returns with each of the 31
\* registers, the user sp included, as it was at the ecall, except a0,
\* which holds what the handler stored in the frame's a0 for GETCHAR,
\* READFILE and WRITEFILE; PUTCHAR returns with a0 as it was too.
C26_RegistersRestored ==
    [][(pc = "sret" /\ pc' = "user") =>
          /\ last.op \in {"putchar", "getchar", "readfile", "writefile"}
          /\ \A reg \in RegNames \ {"a0"} : regs'[reg] = regs[reg]
          /\ regs'["a0"] = IF last.op = "putchar" THEN regs["a0"] ELSE frame.a0
          /\ last.op = "getchar" => regs'["a0"] \in {13, 97}]_vars

\* A READFILE has returned the number of bytes read in a0 with the other
\* registers restored.
C26_Witness ==
    /\ pc = "user"
    /\ last.op = "sret"
    /\ last.handler = "readfile"
    /\ regs["a0"] > 0
    /\ regs["a3"] = SYS_READFILE
    /\ regs["sp"] = 7031
    /\ regs["s11"] = 7030

\* C27: virtq_kick writes the ring entry, issues the barrier, increments
\* avail.index, notifies and increments last_seen_used_index, in this
\* order; so whenever the device sees the incremented avail.index, the
\* ring entry, the descriptors and the request record of that request have
\* reached it.
C27_PublishOrder ==
    /\ pc = "kick_poll" =>
          virtio.trace = <<"ring", "barrier", "avail_index", "notify", "last_seen_used_index">>
    /\ (pc \in {"kick_sync", "kick_notify", "kick_last_seen", "kick_poll"}
        /\ virtio.seen.avail_index = virtio.mine.avail_index)
          => virtio.pending \cap {"ring", "descs", "blk_req"} = {}
    /\ last.op = "device_complete" => ~last.stale

HasFlag(flags, bit) == (flags \div bit) % 2 = 1

\* The descriptor indexes of the chain that starts at head, as a device
\* follows it: next is taken while VIRTQ_DESC_F_NEXT is set.
RECURSIVE Chain(_, _, _)
Chain(descs, head, fuel) ==
    <<head>> \o (IF fuel > 0 /\ head < Len(descs)
                    /\ HasFlag(descs[head + 1].flags, VIRTQ_DESC_F_NEXT)
                 THEN Chain(descs, descs[head + 1].next, fuel - 1)
                 ELSE <<>>)

\* The avail ring slot of the request being published.
PublishedSlot ==
    IF pc = "kick_index" THEN virtio.mine.avail_index % VIRTQ_ENTRY_NUM
    ELSE (virtio.mine.avail_index + 65535) % VIRTQ_ENTRY_NUM

\* C29: a request the driver submits is the chain 0 -> 1 -> 2 with head 0
\* in the avail ring: descriptor 0 is the 16-byte header with NEXT,
\* descriptor 1 the 512 data bytes with NEXT and with WRITE exactly for a
\* read from disk, descriptor 2 the status byte with WRITE and without
\* NEXT; for a write to disk req.data holds the caller's 512 bytes before
\* virtq_kick begins.
C29_DescriptorChain ==
    LET d == virtio.mine.descs
        req == virtio.mine.blk_req
        is_read == req.type = VIRTIO_BLK_T_IN
    IN  /\ (pc = "kick_ring" /\ last.op = "fill_request")
              => /\ virtio.trace = <<>>
                 /\ req.type = (IF last.is_write THEN VIRTIO_BLK_T_OUT ELSE VIRTIO_BLK_T_IN)
                 /\ req.sector = last.sector
                 /\ last.is_write => (Len(req.data) = SECTOR_SIZE /\ req.data = last.buf)
        /\ pc \in {"kick_index", "kick_sync", "kick_notify", "kick_last_seen", "kick_poll"}
              => /\ virtio.mine.ring[PublishedSlot] = 0
                 /\ Chain(d, virtio.mine.ring[PublishedSlot], VIRTQ_ENTRY_NUM) = <<0, 1, 2>>
                 /\ req.type \in {VIRTIO_BLK_T_IN, VIRTIO_BLK_T_OUT}
                 /\ d[1].addr = ReqAddr(0) /\ d[1].len = 16
                 /\ d[1].flags = VIRTQ_DESC_F_NEXT
                 /\ d[2].addr = ReqAddr(16) /\ d[2].len = 512
                 /\ HasFlag(d[2].flags, VIRTQ_DESC_F_NEXT)
                 /\ HasFlag(d[2].flags, VIRTQ_DESC_F_WRITE) <=> is_read
                 /\ d[2].flags \in {VIRTQ_DESC_F_NEXT, VIRTQ_DESC_F_NEXT + VIRTQ_DESC_F_WRITE}
                 /\ d[3].addr = ReqAddr(528) /\ d[3].len = 1
                 /\ d[3].flags = VIRTQ_DESC_F_WRITE

\* The second request, a write of the caller's buffer, is published.
C29_Witness ==
    /\ pc = "kick_poll"
    /\ virtio.mine.avail_index = 2
    /\ virtio.mine.blk_req.type = VIRTIO_BLK_T_OUT
    /\ virtio.mine.blk_req.data = Pattern(9, SECTOR_SIZE)
    /\ ~HasFlag(virtio.mine.descs[2].flags, VIRTQ_DESC_F_WRITE)

\* C30: for every number of sectors the device reports, the stored byte
\* capacity is 512 times that number, and read_write_disk submits a request
\* exactly when sector < the reported number; a call with a sector out of
\* range leaves the request record, the descriptors, the avail ring, the
\* notify register and the caller's buffer as they were.
C30_Capacity ==
    /\ [](pc = "driver" => virtio.blk_capacity = Capacity64(virtio.reported))
    /\ [](last.op = "read_write_disk"
             => (last.submitted <=> last.sector < virtio.reported))
    /\ [][(last'.op = "read_write_disk" /\ ~last'.submitted)
             => (virtio' = virtio /\ last'.buf_after = last'.buf)]_vars

\* The register writes of a complete initialization, in the order the
\* protocol asks for.
ProtocolWrites ==
    << [reg |-> 112, value |-> Word(0, 0)],
       [reg |-> 112, value |-> Word(0, 1)],
       [reg |-> 112, value |-> Word(0, 3)],
       [reg |-> 112, value |-> Word(0, 11)],
       [reg |-> 48, value |-> Word(0, 0)],
       [reg |-> 56, value |-> Word(0, 16)],
       [reg |-> 60, value |-> Word(0, 0)],
       [reg |-> 64, value |-> PageAddress(FreeRamPage)],
       [reg |-> 112, value |-> Word(0, 4)] >>

NotifyWrite == [reg |-> 80, value |-> Word(0, 0)]

\* C31: init_virtio_blk aborts on a wrong magic, version or device id
\* before any register write and any allocation; otherwise it writes 0 to
\* the status register, ORs in ACKNOWLEDGE, DRIVER and FEATURES_OK, selects
\* queue 0, sets its size 16, its alignment 0 and its address, and then
\* writes DRIVER_OK; no request is notified before the DRIVER_OK write.
C31_InitProtocol ==
    LET w == virtio.writes
        mismatch == \/ virtio.magic # 1953655158
                    \/ virtio.version # 1
                    \/ virtio.device_id # 2
    IN  /\ mismatch => (w = <<>> /\ virtio.allocs = 0 /\ next_paddr = 0
                        /\ pc \in {"init_virtio_blk", "panic"})
        /\ (mismatch /\ pc = "panic") => panic # "none"
        /\ \A k \in 1 .. Len(w) :
              w[k] = IF k <= Len(ProtocolWrites) THEN ProtocolWrites[k] ELSE NotifyWrite
        /\ virtio.allocs = 0 => Len(w) <= 4
        /\ virtio.requests > 0 => Len(w) = Len(ProtocolWrites) + virtio.requests
        /\ pc = "blk_ready" => (Len(w) >= Len(ProtocolWrites) /\ virtio.allocs = 2
                                /\ next_paddr = 3)

\* The device is initialized and the first request has been notified.
C31_Witness ==
    /\ pc = "blk_ready"
    /\ virtio.requests = 1
    /\ virtio.status = 4
    /\ Len(virtio.writes) = 10

\* The offset in disk[] of the header of the k-th in-use file (k from 1):
\* each file takes its header and its data, rounded up to whole sectors.
RECURSIVE HeaderOffset(_, _)
HeaderOffset(tuples, k) ==
    IF k = 1 THEN 0
    ELSE HeaderOffset(tuples, k - 1) + 512 * (1 + (tuples[k - 1][2] + 511) \div 512)

OctalChars(s) == \A i \in 1 .. Len(s) : s[i] \in 48 .. 55

\* C32: every header flush_fs writes has in its checksum field six octal
\* digits, NUL and a space, the digits being the sum of the 512 header
\* bytes with the checksum field counted as eight spaces, and in its size
\* field the file size as 12 octal digits.
C32_HeaderChecksum ==
    last.op = "flush_fs"
       => LET t == FileTuples(files)
          IN  \A k \in 1 .. Len(t) :
                 LET h == Bytes(disk, HeaderOffset(t, k), 512)
                     sum == SumBytes(h, 1, 148) + 8 * 32 + SumBytes(h, 157, 512)
                     chk == SubSeq(h, 149, 154)
                     size == SubSeq(h, 125, 136)
                 IN  /\ OctalChars(chk)
                     /\ OctalDigits(chk, 1, 0) = sum
                     /\ h[155] = 0
                     /\ h[156] = 32
                     /\ OctalChars(size)
                     /\ OctalDigits(size, 1, 0) = t[k][2]

\* Two files have been flushed, the second header lies at offset 1536.
C32_Witness ==
    /\ last.op = "flush_fs"
    /\ Len(FileTuples(files)) = 2
    /\ files[0].size = 1024
    /\ files[1].size = 600
    /\ SubSeq(Bytes(disk, 1536, 512), 125, 136) = <<48, 48, 48, 48, 48, 48, 48, 48, 49, 49, 51, 48>>

\* The calls of init_boot and kernel_main's yield, in the order the claim
\* gives them.
BootOrder ==
    <<"init_bss", "init_trap_handler", "init_virtio_blk", "init_idle_process",
      "init_user", "init_fs", "yield">>

BootIndex(p) == CHOOSE k \in 1 .. Len(BootOrder) : BootOrder[k] = p

BootDone(p) ==
    \/ pc \notin {BootOrder[k] : k \in 1 .. Len(BootOrder)} \cup {"panic"}
    \/ /\ pc \in {BootOrder[k] : k \in 1 .. Len(BootOrder)}
       /\ BootIndex(pc) > BootIndex(p)

\* C33: boot zeroes the .bss, installs the trap vector, initializes the
\* block device, creates the idle process (slot 0, pid 0, current_proc),
\* creates the user process and loads the file system, in this order; the
\* first yield then switches from the idle process to the user process, and
\* PANIC("switched to idle process") is never executed.
C33_BootOrder ==
    /\ [][(pc \in {BootOrder[k] : k \in 1 .. Len(BootOrder)} /\ pc' # pc)
             => \/ pc' = "panic"
                \/ /\ pc # "yield"
                   /\ pc' = BootOrder[BootIndex(pc) + 1]
                \/ /\ pc = "yield"
                   /\ pc' = "user"]_vars
    /\ [](pc = "init_trap_handler"
             => /\ procs = [i \in Slots |-> UnusedSlot]
                /\ current_proc = NULL /\ idle_proc = NULL
                /\ files = [i \in FileSlots |-> NoFile])
    /\ [](BootDone("init_trap_handler") => csr.stvec = "trampoline")
    /\ [](BootDone("init_virtio_blk") => next_paddr >= 3)
    /\ [](pc = "init_virtio_blk" => next_paddr = 0)
    /\ [](pc \in {"init_user", "init_fs", "yield"}
             => /\ current_proc = 0
                /\ procs[0].state = PROC_RUNNABLE
                /\ procs[0].pid = 0)
    /\ [](pc \in {"init_fs", "yield"}
             => /\ procs[1].state = PROC_RUNNABLE
                /\ procs[1].pid = 2
                /\ procs[1].sp = "user_entry")
    /\ [](pc = "yield" => last.op = "init_fs")
    /\ [][last'.op = "kernel_main_yield"
             => /\ current_proc = 0
                /\ current_proc' = 1
                /\ pc' = "user"
                /\ panic' = "none"
                /\ csr'.satp = procs[1].page_table.root]_vars
    /\ [](panic # "switched to idle process")

\* The first yield has switched from the idle process to the user process
\* after a boot that found a stale .bss.
C33_Witness ==
    /\ last.op = "kernel_main_yield"
    /\ pc = "user"
    /\ current_proc = 1
    /\ procs[0].sp = "kernel_main"
    /\ files[0].in_use
    /\ procs[3].state = PROC_UNUSED

\* C34: flush_fs and init_fs touch disk[] only inside its bounds: for every
\* file table with sizes in 0..1024 and every archive on the device, each
\* header offset plus 512 plus the file size is at most sizeof(disk).
C34_DiskInBounds ==
    /\ ~oob
    /\ last.op = "flush_fs"
          => LET t == FileTuples(files)
             IN  \A k \in 1 .. Len(t) :
                    HeaderOffset(t, k) + 512 + t[k][2] <= DISK_MAX_SIZE

\* C35: fs_lookup returns only slots that are in use, for every name (the
\* empty one included) and every file table, so that READFILE and
\* WRITEFILE never read or modify a slot that is not in use.
C35_LookupInUse ==
    /\ \A s \in 1 .. Len(UserStrings) :
          LET i == fs_lookup(files, UserStrings[s])
          IN  i # NULL => files[i].in_use
    /\ (last.op \in {"readfile", "writefile"} /\ last.file # NULL)
          => files[last.file].in_use

\* C36: a READFILE or WRITEFILE call on an existing file, with any signed
\* 32-bit len (negative values included), copies a number of bytes in
\* 0..1024 and returns that number in a0.
C36_LenBounded ==
    [][(/\ last'.op \in {"readfile", "writefile"}
        /\ last'.file # NULL
        /\ files[last'.file].in_use)
          => /\ pc' = "sret"
             /\ frame'.a0 \in 0 .. DataSize
             /\ last'.op = "readfile" => Len(last'.buf) = frame'.a0
             /\ last'.op = "writefile" => files'[last'.file].size = frame'.a0]_vars


\* C37: every time yield switches, the incoming process is a valid control
\* block whose saved sp points at a frame written earlier by create_process
\* or by switch_context when that process was switched out; the hart goes
\* on where that frame says (a first entry at the process's pc), and the
\* outgoing process's frame is saved in its control block.
C37_SwitchInValid ==
    [][(last'.op \in YieldOps /\ last'.next # current_proc)
          => /\ last'.next # NULL
             /\ procs[last'.next].state # PROC_UNUSED
             /\ procs[last'.next].sp \in Frames \ {"none"}
             /\ current_proc' = last'.next
             /\ pc' = Resume(procs[last'.next].sp).pc
             /\ procs'[current_proc].sp \in {"kernel_main", "sys_exit", "yield_op"}
             /\ csr'.sscratch = StackTop(last'.next)]_vars


\* The virtual pages the tables are read at: the user region as far as an
\* image reaches and one page more, the identity-mapped region, the page
\* after it and the device's register page.
IsolationVpns ==
    (UserBasePage .. UserBasePage + MaxImagePages + 1)
        \cup (KernelBasePage .. FreeRamEndPage) \cup {VirtioPage}

Created == {i \in Slots : procs[i].state # PROC_UNUSED}

\* The physical pages the table of slot i maps with U = 1.
UserMapped(i) ==
    {Translate(procs[i].page_table.maps, v).ppn :
        v \in {w \in IsolationVpns : "U" \in Translate(procs[i].page_table.maps, w).flags}}

\* The frames create_process took for slot i, by the order of its calls of
\* alloc_pages and map_page: the root and the level-0 tables of the kernel
\* map first; then the first image page, the level-0 table of the user
\* region (allocated by the first map_page at USER_BASE) and the remaining
\* image pages.
ImagePagesOf(i) == Len(procs[i].page_table.maps) - 1

TableFrames(i) ==
    LET root == procs[i].page_table.root
    IN  {FreeRamPage + f : f \in (root .. root + KernelTables)
            \cup (IF ImagePagesOf(i) > 0 THEN {root + KernelTables + 2} ELSE {})}

ImageFrames(i) ==
    LET root == procs[i].page_table.root
    IN  {FreeRamPage + f : f \in (root + 1 + KernelTables .. root + 1 + KernelTables + ImagePagesOf(i))
                                    \ {root + KernelTables + 2}}

\* The frames init_virtio_blk took for the virtqueue and the request record.
DriverFrames == FreeRamPage .. FreeRamPage + DriverPages - 1

KernelImageFrames == KernelBasePage .. FreeRamPage - 1

KernelRegion == KernelBasePage .. FreeRamEndPage - 1

\* What holds of the user mappings whatever "page of the kernel region"
\* means: distinct roots, U leaves on the process's own image frames only,
\* on no frame another process maps with U, on no page-table frame and on
\* no frame of the driver.
UserLeavesIsolated ==
    LET user == [i \in Slots |-> IF i \in Created THEN UserMapped(i) ELSE {}]
        tables == UNION {TableFrames(i) : i \in Created}
    IN  /\ \A i, j \in Created : i # j => procs[i].page_table.root # procs[j].page_table.root
        /\ \A i \in Created :
              /\ user[i] \subseteq ImageFrames(i)
              /\ \A j \in Created \ {i} : user[i] \cap user[j] = {}
              /\ user[i] \cap tables = {}
              /\ user[i] \cap DriverFrames = {}

\* C38 as stated: address spaces are isolated, and no leaf with U = 1 maps
\* any page of the identity-mapped kernel region [__kernel_base,
\* __free_ram_end).
C38_IsolationRegion ==
    /\ UserLeavesIsolated
    /\ \A i \in Created : UserMapped(i) \cap KernelRegion = {}

\* C38: across all created processes the root page tables are pairwise
\* distinct frames; every leaf with U = 1 maps a frame alloc_pages returned
\* for that process's own image, U-mapped in no other process's table; no
\* leaf with U = 1 maps a page-table frame, the virtqueue, the
\* block-request record or a page of the kernel image [__kernel_base,
\* __free_ram); and every virtual page of the identity-mapped region
\* [__kernel_base, __free_ram_end) has a leaf to itself with R, W, X and
\* without U.
C38_Isolation ==
    /\ UserLeavesIsolated
    /\ \A i \in Created :
          /\ UserMapped(i) \cap KernelImageFrames = {}
          /\ \A v \in KernelRegion :
                Translate(procs[i].page_table.maps, v) =
                    [ppn |-> v, flags |-> {"V", "R", "W", "X"}]

\* Two processes with an image besides the idle process, one of them
\* running in user mode; the image frame of each is a frame of the
\* identity-mapped region too.
C38_Witness ==
    /\ pc = "user"
    /\ current_proc # NULL
    /\ \E i, j \in Created :
          /\ i # j
          /\ UserMapped(i) # {}
          /\ UserMapped(j) # {}
          /\ UserMapped(i) \subseteq KernelRegion
    /\ \E i \in Created : UserMapped(i) = {}

====
